---- MODULE Spec2Model ----
(***************************************************************************)
(* Genesis AI agent: the permission store (modules/permissions.py), the    *)
(* action cache (modules/actions/cache.py), the turn orchestrator          *)
(* AIAgent.ask_stream (modules/ai_agent/core.py), the action executor, the *)
(* plugin packages and registry (modules/actions), the task scheduler      *)
(* (modules/tasks/scheduler.py), the providers                             *)
(* (modules/ai_agent/providers),                                           *)
(* extract_json (modules/utils.py) and the background worker               *)
(* (modules/ai_agent/scheduler_worker.py).                                 *)
(*                                                                         *)
(* The specifications share the variables:                                 *)
(*   PermSpec   grant_permission / check_permission over the permissions   *)
(*              table, with the calendar date advancing;                   *)
(*   CacheSpec  the ActionCache operations with the clock advancing;       *)
(*   ConcSpec   threads calling the ActionCache under its lock;            *)
(*   Spec       one ask_stream call (a turn), from its entry to the end of *)
(*              the generator; FairSpec is Spec with the consumer always   *)
(*              draining the generator, StopSpec adds the stop request;    *)
(*   SuperviseSpec  the dispatch and collection of one batch of actions;   *)
(*   ExecSpec   ActionExecutor running one child process;                  *)
(*   HomeSpec   ActionExecutor.execute choosing GENESIS_HOME;              *)
(*   PlugSpec   ActionRegistry and the .gplug archives;                    *)
(*   CronSpec   TaskScheduler._should_run on a schedule and a time;        *)
(*   SchedSpec  TaskScheduler with its callers, its loop and the clock;    *)
(*   ProvSpec   one provider.generate call on a stream of chunks;          *)
(*   FwdSpec    ProvSpec with ask_stream forwarding the events;            *)
(*   JsonSpec   extract_json on a text;                                    *)
(*   PoolSpec   the threads that run plugin child processes;               *)
(*   LoopSpec   start, stop and the threads of _scheduler_loop;            *)
(*   ShareSpec  the registry singleton over the turns of two users;        *)
(*   IdsSpec    active_action_ids over one batch of a chat;                *)
(*   WorkerSpec run_worker_loop and its request queue; WorkerFairSpec is   *)
(*              WorkerSpec with the processor thread always scheduled.     *)
(***************************************************************************)
EXTENDS Naturals, Integers, Sequences, FiniteSets, TLC

VARIABLES
    \* ---- modules/permissions.py: data/permissions.db ----
    permissions,        \* rows of table permissions, in insertion (id) order
    today,              \* date.today(), as a day number
    \* ---- modules/actions/cache.py: ActionCache ----
    cache,              \* ActionCache._cache: key -> {data, timestamp, ttl}
    now,                \* time.time(), in whole seconds
    lastSet,            \* history: key -> the most recent effective set(...) call
    \* ---- modules/ai_agent/core.py: one AIAgent.ask_stream call ----
    pc,                     \* where the generator stands
    resume_action,          \* parameter resume_action, reset at line 433
    current_loop,           \* local current_loop
    loop_history,           \* local loop_history: the chat's items
    json_data,              \* local json_data (extract_json of the resumed message)
    found_resume_actions,   \* local found_resume_actions
    system_prompt,          \* local system_prompt handed to the provider
    di,                     \* position of `for act in found_resume_actions`
    pending,                \* local pending: futures submitted to thread_pool
    observations,           \* local observations
    pre_ttl,                \* cache_ttl the registry holds for the pre_request action
    pre_executed,           \* history: pre_request actions handed to the executor
    stream,                 \* history: the latest events yielded to the consumer
    lastGen,                \* history: what the latest generation produced
    nGenerate,              \* history: calls of provider.generate (saturating)
    nBatches,               \* history: action batches dispatched (saturating)
    executed,               \* history: executor.execute runs per action (saturating)
    perm_checked,           \* history: check_permission calls made by the turn
    stop,                   \* parameter stop_event: whether it is set
    progress_q,             \* local progress_q: action names of queued progress
    \* ---- modules/actions/cache.py: callers of ActionCache ----
    lock,                   \* ActionCache._lock: the thread holding it, or None
    thr,                    \* per calling thread: the method it is in and its locals
    held,                   \* history: the entry map when the lock was last taken
    \* ---- modules/actions/executor.py: one _run_subprocess call ----
    child_out,              \* lines the child has still to write to stdout
    stdout_lines,           \* local stdout_lines
    progress_callback,      \* whether execute was given a progress_callback
    callback_log,           \* history: stdout lines passed to progress_callback
    exit_code,              \* process.poll(): <<>> while the child runs
    exec_result,            \* what execute returned
    active_action_ids,      \* AIAgent.active_action_ids[chat_id]
    cancel_result,          \* outcome of cancel_current_action(chat_id)
    \* ---- modules/actions/executor.py: ActionExecutor.execute ----
    genesis_home,           \* local genesis_home, a path as its segments
    fs_dirs,                \* directories that exist under the working directory
    child_env,              \* GENESIS_HOME in the env handed to Popen: <<>> or <<path>>
    home_call,              \* history: role, user_id and type of the latest execute
    \* ---- modules/actions/registry.py: one ActionRegistry and the plugin folders ----
    disk,                   \* plugin directories: <<scope, dir>> -> manifest.json
    plugins,                \* ActionRegistry.plugins
    actions,                \* ActionRegistry.actions
    plug_op,                \* history: the latest operation on the registry
    \* ---- modules/tasks/scheduler.py: one _should_run call ----
    cron_schedule,          \* parameter schedule
    cron_now,               \* parameter now: its hour and minute
    cron_result,            \* what _should_run returned
    \* ---- modules/tasks/scheduler.py: TaskScheduler ----
    tasks,                  \* self.tasks, in insertion order
    running,                \* self.running
    clock,                  \* the wall clock, in ticks
    wake,                   \* the tick the loop's time.sleep(60) ends at
    created,                \* how many task ids uuid4 has given out
    sched_op,               \* history: the latest operation on the scheduler
    fire_log,               \* history: the executions the loop started
    changed_at,             \* history: the tick each task was last created or updated at
    \* ---- modules/ai_agent/providers: one provider.generate call ----
    provider,               \* which provider generates
    use_thinking,           \* parameter use_thinking
    streamer,               \* the chunks the model has still to produce
    is_thinking,            \* local is_thinking
    has_started_thinking,   \* local has_started_thinking
    stop_event,             \* parameter stop_event: whether it is set
    prov_events,            \* history: the statuses generate has yielded
    prov_done,              \* whether the generator has returned
    \* ---- modules/utils.py: one extract_json call ----
    json_text,              \* parameter text, as its lexical pieces
    json_called,            \* whether extract_json has returned
    json_result,            \* what extract_json returned: <<>> for None, else <<value>>
    \* ---- modules/ai_agent/core.py: AIAgent.thread_pool and the other threads that run actions ----
    work_queue,             \* work items submitted to thread_pool and not yet taken
    workers_busy,           \* pool workers inside ActionExecutor.execute, a child running
    turn_children,          \* the turns whose own thread runs a pre_request child
    loop_child,             \* whether the scheduler thread runs a task's child
    \* ---- modules/tasks/scheduler.py: the threads of _scheduler_loop ----
    self_running,           \* self.running, as the loop threads read it
    threads_made,           \* how many loop threads start() has created; the latest is self._thread
    loop_thread,            \* per loop thread: where it stands and its tick's locals
    live_tasks,             \* the ids in self.tasks (all active and due)
    \* ---- modules/actions/registry.py: the registry singleton the agent's turns share ----
    plugin_dirs,            \* the plugin folders on disk, each <<owner, plugin id>>
    agent_actions,          \* ActionRegistry.get_instance().actions: action name -> plugin folder
    turn_user,              \* user_id of the latest turn (the chat's owner)
    turn_disk,              \* history: the plugin folders on disk when the latest turn scanned
    turn_pre_run,           \* history: the pre_request actions the latest turn executed
    turn_listed,            \* history: the actions the latest turn put in its system prompt
    \* ---- modules/ai_agent/core.py: active_action_ids over one batch of a chat ----
    ids_pc,                 \* where ask_stream stands: dispatch, wait or end
    batch_left,             \* actions of found_actions still to dispatch
    executions,             \* the batch's executions by id: running, done (future finished) or collected
    chat_active_id,         \* self.active_action_ids.get(chat_id): <<>> or <<execution id>>
    cancel_target,          \* history: what the latest cancel_current_action aimed at
    \* ---- modules/ai_agent/core.py: ask_stream consuming one generation ----
    forwarded,              \* history: the statuses ask_stream has yielded for this generation
    fwd_pos,                \* how many of the provider's events the for loop has taken
    \* ---- modules/ai_agent/scheduler_worker.py: run_worker_loop and the request queue ----
    request_queue,          \* agent.request_queue: the requests waiting, oldest first
    worker_alive,           \* whether the processor thread is still inside run_worker_loop
    agent_stop_event,       \* agent.stop_event: whether it is set
    active_tasks,           \* the chats that have an entry in agent.active_tasks
    asked,                  \* history: the chats a request was queued for
    served,                 \* history: per chat, the request the worker took from the queue
    broadcasts              \* history: per chat, what the worker broadcast for its request

permVars  == <<permissions, today>>
cacheVars == <<cache, now, lastSet>>
turnVars  == <<pc, resume_action, current_loop, loop_history, json_data,
               found_resume_actions, system_prompt, di, pending, observations,
               pre_ttl, pre_executed, stream, lastGen, nGenerate, nBatches,
               executed, perm_checked, stop, progress_q>>
lockVars  == <<lock, thr, held>>
execVars  == <<child_out, stdout_lines, progress_callback, callback_log, exit_code,
               exec_result, active_action_ids, cancel_result>>
homeVars  == <<genesis_home, fs_dirs, child_env, home_call>>
plugVars  == <<disk, plugins, actions, plug_op>>
cronVars  == <<cron_schedule, cron_now, cron_result>>
schedVars == <<tasks, running, clock, wake, created, sched_op, fire_log, changed_at>>
\* The variables of the later sections, and for each section the others.
provVars == <<provider, use_thinking, streamer, is_thinking, has_started_thinking,
                stop_event, prov_events, prov_done>>
jsonVars == <<json_text, json_called, json_result>>
poolVars == <<work_queue, workers_busy, turn_children, loop_child>>
loopVars == <<self_running, threads_made, loop_thread, live_tasks>>
shareVars == <<plugin_dirs, agent_actions, turn_user, turn_disk, turn_pre_run, turn_listed>>
idsVars == <<ids_pc, batch_left, executions, chat_active_id, cancel_target>>
fwdVars == <<forwarded, fwd_pos>>
workerVars == <<request_queue, worker_alive, agent_stop_event, active_tasks, asked, served,
                  broadcasts>>
lateVars == <<provVars, jsonVars, poolVars, loopVars, shareVars, idsVars, fwdVars,
              workerVars>>
earlyVars == <<permVars, cacheVars, turnVars, lockVars, execVars, homeVars, plugVars,
               cronVars, schedVars>>
provOthers == <<earlyVars, jsonVars, poolVars, loopVars, shareVars, idsVars, fwdVars,
        workerVars>>
jsonOthers == <<earlyVars, provVars, poolVars, loopVars, shareVars, idsVars, fwdVars,
        workerVars>>
poolOthers == <<earlyVars, provVars, jsonVars, loopVars, shareVars, idsVars, fwdVars,
        workerVars>>
loopOthers == <<earlyVars, provVars, jsonVars, poolVars, shareVars, idsVars, fwdVars,
        workerVars>>
shareOthers == <<earlyVars, provVars, jsonVars, poolVars, loopVars, idsVars, fwdVars,
        workerVars>>
idsOthers == <<earlyVars, provVars, jsonVars, poolVars, loopVars, shareVars, fwdVars,
        workerVars>>
fwdOthers == <<earlyVars, provVars, jsonVars, poolVars, loopVars, shareVars, idsVars,
        workerVars>>
workerOthers == <<earlyVars, provVars, jsonVars, poolVars, loopVars, shareVars, idsVars,
        fwdVars>>

moreVars  == <<homeVars, plugVars, cronVars, schedVars, lateVars>>
vars      == <<moreVars, permissions, today, cache, now, lastSet, pc, resume_action,
               current_loop, loop_history, json_data, found_resume_actions,
               system_prompt, di, pending, observations, pre_ttl, pre_executed,
               stream, lastGen, nGenerate, nBatches, executed,
               perm_checked, stop, progress_q, lock, thr, held, child_out,
               stdout_lines, progress_callback, callback_log, exit_code,
               exec_result, active_action_ids, cancel_result>>

None == "None"          \* Python None / SQL NULL

(***************************************************************************)
(* Permission store                                                        *)
(***************************************************************************)
SCOPE_ONCE    == "once"
SCOPE_SESSION == "session"
SCOPE_TODAY   == "today"
SCOPE_ALWAYS  == "always"
Scopes == {SCOPE_ONCE, SCOPE_SESSION, SCOPE_TODAY, SCOPE_ALWAYS}

Users       == {"u1", "u2"}
ActionNames == {"say_hello", "search_files"}
ChatIds     == {"c1", "c2"}

MaxGrants == 2          \* rows inserted in one exploration
MaxDay    == 2          \* days the calendar advances through

\* Python truthiness of a chat_id argument (`if chat_id:`).
Truthy(chat_id) == chat_id # None /\ chat_id # ""

\* Column expires_at: NULL, or an ISO date (ordered as its day number).
NoDate == <<>>
Date(d) == <<d>>
NotBefore(expires_at, day) == expires_at # NoDate /\ expires_at[1] >= day

\* The row grant_permission inserts (granted_at is defaulted and never read).
GrantRow(user_id, action_name, scope, chat_id) ==
    [user_id     |-> user_id,
     action_name |-> action_name,
     scope       |-> scope,
     chat_id     |-> IF scope = SCOPE_SESSION THEN chat_id ELSE None,
     expires_at  |-> IF scope = SCOPE_TODAY THEN Date(today) ELSE NoDate]

\* grant_permission(user_id, action_name, scope, chat_id=None)
grant_permission(user_id, action_name, scope, chat_id) ==
    IF scope = SCOPE_ONCE
    THEN permissions
    ELSE Append(permissions, GrantRow(user_id, action_name, scope, chat_id))

\* SELECT id FROM permissions WHERE user_id = ? AND action_name = ? AND scope = ?
RowsFor(user_id, action_name, scope) ==
    {i \in DOMAIN permissions :
        /\ permissions[i].user_id = user_id
        /\ permissions[i].action_name = action_name
        /\ permissions[i].scope = scope}

\* check_permission with the user_id column left out of the WHERE clauses.
check_permission_any_user(user_id, action_name, chat_id) ==
    \E i \in DOMAIN permissions :
        /\ permissions[i].action_name = action_name
        /\ \/ permissions[i].scope = SCOPE_ALWAYS
           \/ permissions[i].scope = SCOPE_TODAY /\ NotBefore(permissions[i].expires_at, today)
           \/ /\ permissions[i].scope = SCOPE_SESSION
              /\ Truthy(chat_id)
              /\ permissions[i].chat_id = chat_id

\* check_permission(user_id, action_name, chat_id=None): the three queries in
\* the order the code issues them.  A NULL expires_at or chat_id matches no
\* comparison, as in SQL.
check_permission(user_id, action_name, chat_id) ==
    IF RowsFor(user_id, action_name, SCOPE_ALWAYS) # {}
    THEN TRUE
    ELSE IF \E i \in RowsFor(user_id, action_name, SCOPE_TODAY) :
                NotBefore(permissions[i].expires_at, today)
    THEN TRUE
    ELSE IF Truthy(chat_id)
    THEN \E i \in RowsFor(user_id, action_name, SCOPE_SESSION) :
                /\ permissions[i].chat_id # None
                /\ permissions[i].chat_id = chat_id
    ELSE FALSE

\* grant_permission_api / any caller: scope and chat_id are not validated.
GrantPermission ==
    /\ Len(permissions) < MaxGrants
    /\ \E u \in Users, a \in ActionNames, s \in Scopes, c \in ChatIds \cup {None} :
          permissions' = grant_permission(u, a, s, c)
    /\ UNCHANGED <<moreVars, today, cacheVars, turnVars, lockVars, execVars>>

\* Midnight passes.
AdvanceDay ==
    /\ today < MaxDay
    /\ today' = today + 1
    /\ UNCHANGED <<moreVars, permissions, cacheVars, turnVars, lockVars, execVars>>

(***************************************************************************)
(* Action cache                                                            *)
(***************************************************************************)
PreRequestActions == {"system_info"}           \* trigger = pre_request
CacheActionNames  == PreRequestActions \cup {"weather"}
CacheUsers        == Users
CacheData         == {"d1", "d2"}

MaxTtl  == 1            \* ttl arguments range over 0..MaxTtl
MaxTime == 2            \* seconds the clock advances through

\* ActionCache._make_key: f"{action_name}:{user_id}"
make_key(action_name, user_id) == action_name \o ":" \o user_id

CacheKeys == {make_key(n, u) : n \in CacheActionNames, u \in CacheUsers}

\* str.endswith
EndsWith(s, suffix) ==
    /\ Len(s) >= Len(suffix)
    /\ SubSeq(s, Len(s) - Len(suffix) + 1, Len(s)) = suffix

\* get with the age test written `age <= ttl`.
cache_get_inclusive(action_name, user_id, ttl) ==
    LET key == make_key(action_name, user_id) IN
    IF ttl <= 0 THEN None
    ELSE IF key \notin DOMAIN cache THEN None
    ELSE IF now - cache[key].timestamp <= ttl THEN cache[key].data
    ELSE None

\* ActionCache.get(action_name, user_id, ttl)
cache_get(action_name, user_id, ttl) ==
    LET key == make_key(action_name, user_id) IN
    IF ttl <= 0 THEN None
    ELSE IF key \notin DOMAIN cache THEN None
    ELSE IF now - cache[key].timestamp < ttl THEN cache[key].data
    ELSE None

\* ActionCache.get_stale(action_name, user_id)
cache_get_stale(action_name, user_id) ==
    LET key == make_key(action_name, user_id) IN
    IF key \in DOMAIN cache THEN cache[key].data ELSE None

\* ActionCache.is_stale(action_name, user_id, ttl)
cache_is_stale(action_name, user_id, ttl) ==
    LET key == make_key(action_name, user_id) IN
    IF key \notin DOMAIN cache THEN TRUE
    ELSE now - cache[key].timestamp >= ttl

\* A function with key k bound to v / with key set K removed.
Put(f, k, v) == [x \in DOMAIN f \cup {k} |-> IF x = k THEN v ELSE f[x]]
Drop(f, K)   == [x \in DOMAIN f \ K |-> f[x]]

\* ActionCache.set(action_name, user_id, data, ttl): the new entry map.
cache_set(action_name, user_id, data, ttl) ==
    IF ttl <= 0 THEN cache
    ELSE Put(cache, make_key(action_name, user_id),
             [data |-> data, timestamp |-> now, ttl |-> ttl])

\* ActionCache.invalidate(action_name, user_id): the new entry map.
cache_invalidate(action_name, user_id) ==
    Drop(cache, {make_key(action_name, user_id)})

\* ActionCache.clear_user(user_id): the keys removed.
clear_user_keys(user_id) ==
    {k \in DOMAIN cache : EndsWith(k, ":" \o user_id)}

CacheSet ==
    /\ \E n \in CacheActionNames, u \in CacheUsers, d \in CacheData, ttl \in 0..MaxTtl :
          /\ cache' = cache_set(n, u, d, ttl)
          /\ lastSet' = IF ttl > 0
                        THEN Put(lastSet, make_key(n, u), [data |-> d, at |-> now])
                        ELSE lastSet
    /\ UNCHANGED <<moreVars, now, permVars, turnVars, lockVars, execVars>>

CacheInvalidate ==
    /\ \E n \in CacheActionNames, u \in CacheUsers :
          /\ cache' = cache_invalidate(n, u)
          /\ lastSet' = Drop(lastSet, {make_key(n, u)})
    /\ UNCHANGED <<moreVars, now, permVars, turnVars, lockVars, execVars>>

CacheClearUser ==
    /\ \E u \in CacheUsers :
          /\ cache' = Drop(cache, clear_user_keys(u))
          /\ lastSet' = Drop(lastSet, {make_key(n, u) : n \in CacheActionNames})
    /\ UNCHANGED <<moreVars, now, permVars, turnVars, lockVars, execVars>>

\* A second passes on the wall clock.
Tick ==
    /\ now < MaxTime
    /\ now' = now + 1
    /\ UNCHANGED <<moreVars, cache, lastSet, permVars, turnVars, lockVars, execVars>>

(***************************************************************************)
(* Turn orchestrator: AIAgent.ask_stream                                   *)
(***************************************************************************)
max_loops == 5

UserId == "u1"          \* get_chat_owner(chat_id)
ChatId == "c1"          \* parameter chat_id

\* ActionRegistry.actions after scan_plugins: the manual actions and the
\* pre_request action.
Registered == ActionNames \cup PreRequestActions

\* ActionRegistry.get_action
get_action(action_name) ==
    IF action_name \in Registered THEN action_name ELSE None

\* Names a model may write in an action request.
RequestNames == ActionNames \cup {"no_such_action"}

MaxBatch     == 2       \* actions requested in one message
MaxFound     == 2 * MaxBatch     \* entries found_resume_actions grows to
CountCap     == 6       \* value at which the history counters stop counting
ExecCap      == 2       \* value at which the execution counters stop counting
StreamWindow == 1       \* events of the stream that are remembered
MaxQueue     == 1       \* messages progress_q holds at a time

Batches == UNION {[1..n -> RequestNames] : n \in 1..MaxBatch}

\* A message's content, by what extract_json makes of it:
\*   empty    ""                         text     prose without JSON
\*   actions  {"actions": [{"name": ..., "parameters": ...}, ...]}
\*   action   {"action": ...}  (the single-call form the resume scan accepts)
Msg(kind, batch) == [kind |-> kind, actions |-> batch]
EmptyMsg  == Msg("empty", <<>>)
TextMsg   == Msg("text", <<>>)
ActionMsg == Msg("action", <<>>)
ActionsMsg(batch) == Msg("actions", batch)

\* modules.utils.extract_json on a message: the parsed object, or None.
JsonNull == Msg("null", <<>>)
extract_json(content) ==
    IF content.kind \in {"actions", "action"} THEN content ELSE JsonNull

Item(role, content) == [role |-> role, content |-> content]

\* The chat's items before the call: a new chat; a chat whose last turn ended
\* with a final answer; chats whose last assistant item requests actions (in
\* either form), with or without a leading system item.
PriorHistories ==
    {<<>>,
     <<Item("assistant", TextMsg), Item("user", TextMsg)>>,
     <<Item("assistant", ActionMsg), Item("user", TextMsg)>>}
    \cup {<<Item("assistant", ActionsMsg(b)), Item("user", TextMsg)>> : b \in Batches}
    \cup {<<Item("system", TextMsg), Item("assistant", ActionsMsg(<<"say_hello">>)),
            Item("user", TextMsg)>>}

\* What a generation produces: prose, an action request, an exception raised
\* to the caller, or an error chunk (gemini_provider.py 93-94).
\* The action requests a generation makes: a known action, two of them, and
\* one that names an action the registry does not hold.
GenBatches ==
    {<<"say_hello">>, <<"search_files", "say_hello">>, <<"say_hello", "no_such_action">>}

GenOutcomes ==
    {TextMsg} \cup {ActionsMsg(b) : b \in GenBatches}
              \cup {Msg("raise", <<>>), Msg("error", <<>>)}
NoGen == Msg("none", <<>>)

\* Events yielded to the consumer.
Ev(status, origin, name) == [status |-> status, origin |-> origin, name |-> name]
Emit(s, e) == IF Len(s) < StreamWindow THEN Append(s, e) ELSE Append(Tail(s), e)
Emit2(s, e1, e2) == Emit(Emit(s, e1), e2)

Sat(n) == IF n < CountCap THEN n + 1 ELSE n
SatExec(n) == IF n < ExecCap THEN n + 1 ELSE n

\* An entry of found_resume_actions: its "name" key (Missing when it has
\* none) and whether it has an "args" key.
Missing == "<no name>"
Req(name, args) == [name |-> name, args |-> args]

\* Lines 326-339: the entries the resume scan collects from json_data.
ResumeScanFound(data) ==
    IF data.kind = "action" THEN <<Req(Missing, FALSE)>>
    ELSE IF data.kind = "actions"
    THEN [i \in DOMAIN data.actions |-> Req(data.actions[i], FALSE)]
    ELSE <<>>

\* Lines 448-466: the normalised {name, args} entries json_data adds.
Normalised(data) ==
    IF data.kind = "actions"
    THEN [i \in DOMAIN data.actions |-> Req(data.actions[i], TRUE)]
    ELSE <<>>

\* Lines 314-318: the content of the latest non-empty assistant item.
RECURSIVE LastAssistant(_)
LastAssistant(history) ==
    IF history = <<>> THEN EmptyMsg
    ELSE LET m == history[Len(history)] IN
         IF m.role = "assistant" /\ m.content.kind # "empty"
         THEN m.content
         ELSE LastAssistant(SubSeq(history, 1, Len(history) - 1))

SysPrompt(template, action_data) == [template |-> template, action_data |-> action_data]

Range(f) == {f[i] : i \in DOMAIN f}
Remove(s, i) == SubSeq(s, 1, i - 1) \o SubSeq(s, i + 1, Len(s))

\* Lines 154-243: the provider's key is checked and the placeholder assistant
\* item (and, unless resuming, the user item) is saved.
Enter ==
    /\ pc = "enter"
    /\ \E key \in {"present", "arrives", "timeout"} :
          /\ stream' = CASE key = "present" -> stream
                         [] key = "arrives" ->
                              Emit2(stream, Ev("request_key", "system", None),
                                    Ev("info", "system", None))
                         [] key = "timeout" ->
                              Emit2(stream, Ev("request_key", "system", None),
                                    Ev("error", "system", None))
          /\ pc' = IF key = "timeout" THEN "done" ELSE "pre_request"
          /\ loop_history' =
                IF key = "timeout" THEN loop_history
                ELSE IF resume_action
                THEN Append(loop_history, Item("assistant", EmptyMsg))
                ELSE loop_history \o <<Item("assistant", EmptyMsg), Item("user", TextMsg)>>
    /\ UNCHANGED <<moreVars, permVars, cacheVars, lockVars, execVars, stop, progress_q,
                   resume_action, current_loop, json_data,
                   found_resume_actions, system_prompt, di, pending, observations,
                   pre_ttl, pre_executed, lastGen, nGenerate,
                   nBatches, executed, perm_checked>>

\* Lines 258-296: every pre_request action of the registry is run by the
\* executor, and the outputs of those that succeed go into the system prompt.
PreRequest ==
    /\ pc = "pre_request"
    /\ \E result \in [PreRequestActions -> {"success", "error"}] :
          system_prompt' =
              SysPrompt("user_chat", {a \in PreRequestActions : result[a] = "success"})
    /\ pre_executed' = PreRequestActions
    /\ pc' = "resume_scan"
    /\ UNCHANGED <<moreVars, permVars, cacheVars, lockVars, execVars, stop, progress_q,
                   resume_action, current_loop, loop_history,
                   json_data, found_resume_actions, di, pending, observations,
                   pre_ttl, stream, lastGen, nGenerate,
                   nBatches, executed, perm_checked>>

\* Lines 301-351: the resume scan.
ResumeScan ==
    /\ pc = "resume_scan"
    /\ LET data  == extract_json(LastAssistant(loop_history))
           found == ResumeScanFound(data)
       IN IF resume_action
          THEN /\ json_data' = data
               /\ found_resume_actions' = found
               /\ current_loop' = IF found # <<>> THEN 1 ELSE current_loop
               /\ resume_action' = (found # <<>>)
          ELSE UNCHANGED <<moreVars, json_data, found_resume_actions, current_loop, resume_action>>
    /\ pc' = "loop_head"
    /\ UNCHANGED <<moreVars, permVars, cacheVars, lockVars, execVars, stop, progress_q,
                   loop_history, system_prompt, di, pending,
                   observations, pre_ttl, pre_executed, stream, lastGen,                    nGenerate, nBatches, executed, perm_checked>>

\* Line 354, `while current_loop <= max_loops`, and line 370.  When the test
\* fails control passes to the loop of line 619.
LoopHead ==
    /\ pc = "loop_head"
    /\ pc' = IF current_loop <= max_loops
             THEN (IF resume_action THEN "analyse" ELSE "generate")
             ELSE "main_loop"
    /\ UNCHANGED <<moreVars, permVars, cacheVars, lockVars, execVars, stop, progress_q,
                   resume_action, current_loop, loop_history,
                   json_data, found_resume_actions, system_prompt, di, pending,
                   observations, pre_ttl, pre_executed, stream, lastGen,                    nGenerate, nBatches, executed, perm_checked>>

\* Lines 370-430: one generation.  The providers yield dicts, which are
\* forwarded as they are; full_content stays empty.
Generate ==
    /\ pc = "generate"
    /\ \E out \in GenOutcomes :
          IF out.kind = "raise"
          THEN /\ stream' = Emit(stream, Ev("error", "system", None))
               /\ pc' = "done"
               /\ nGenerate' = Sat(nGenerate)
               /\ UNCHANGED <<moreVars, lastGen>>
          ELSE /\ stream' = Emit(stream, Ev(IF out.kind = "error" THEN "error" ELSE "content",
                                            "provider", None))
               /\ pc' = "analyse"
               /\ nGenerate' = Sat(nGenerate)
               /\ lastGen' = out
    /\ UNCHANGED <<moreVars, permVars, cacheVars, lockVars, execVars, stop, progress_q,
                   resume_action, current_loop, loop_history,
                   json_data, found_resume_actions, system_prompt, di, pending,
                   observations, pre_ttl, pre_executed, nBatches, executed,
                   perm_checked>>

\* Lines 432-476 and 610-612: json_data, which only the resume scan assigns,
\* is normalised into found_resume_actions; the generation's own content is
\* not parsed.
Analyse ==
    /\ pc = "analyse"
    /\ resume_action' = FALSE
    /\ LET more  == Normalised(json_data)
           found == IF Len(found_resume_actions) + Len(more) <= MaxFound
                    THEN found_resume_actions \o more
                    ELSE found_resume_actions
       IN /\ found_resume_actions' = found
          /\ IF found # <<>>
             THEN /\ stream' = Emit(stream, Ev("content", "system", None))
                  /\ di' = 1
                  /\ pending' = <<>>
                  /\ nBatches' = Sat(nBatches)
                  /\ pc' = "dispatch"
             ELSE /\ pc' = "loop_head"
                  /\ UNCHANGED <<moreVars, stream, di, pending, nBatches>>
    /\ UNCHANGED <<moreVars, permVars, cacheVars, lockVars, execVars, stop, progress_q,
                   current_loop, loop_history, json_data,
                   system_prompt, observations, pre_ttl, pre_executed, lastGen,
                   nGenerate, executed, perm_checked>>

\* Lines 482-510: one round of `for act in found_resume_actions`.  No
\* permission is consulted here.
Dispatch ==
    /\ pc = "dispatch"
    /\ IF di > Len(found_resume_actions)
       THEN /\ observations' = <<>>
            /\ pc' = "supervise"
            /\ UNCHANGED <<moreVars, di, pending, stream>>
       ELSE LET act == found_resume_actions[di] IN
            IF act.name = Missing
            THEN \* act["name"] raises KeyError: lines 994-996
                 /\ stream' = Emit(stream, Ev("error", "system", None))
                 /\ pc' = "done"
                 /\ UNCHANGED <<moreVars, di, pending, observations>>
            ELSE IF act.args /\ get_action(act.name) # None
            THEN /\ pending' = Append(pending, [name |-> act.name, state |-> "running"])
                 /\ stream' = Emit(stream, Ev("content", "system", act.name))
                 /\ di' = di + 1
                 /\ UNCHANGED <<moreVars, pc, observations>>
            ELSE \* act["args"] raises KeyError, or the action is unknown
                 /\ di' = di + 1
                 /\ UNCHANGED <<moreVars, pc, pending, stream, observations>>
    /\ UNCHANGED <<moreVars, permVars, cacheVars, lockVars, execVars, stop, progress_q,
                   resume_action, current_loop, loop_history,
                   json_data, found_resume_actions, system_prompt, pre_ttl,
                   pre_executed, lastGen, nGenerate, nBatches,
                   executed, perm_checked>>

\* A pool thread: ActionExecutor.execute returns for a submitted future.
FutureDone ==
    /\ \E i \in DOMAIN pending, status \in {"success", "error"} :
          /\ pending[i].state = "running"
          /\ pending' = [pending EXCEPT ![i].state = status]
          /\ executed' = [executed EXCEPT ![pending[i].name] = SatExec(@)]
    /\ UNCHANGED <<moreVars, permVars, cacheVars, lockVars, execVars, stop, progress_q,
                   pc, resume_action, current_loop, loop_history,
                   json_data, found_resume_actions, system_prompt, di, observations,
                   pre_ttl, pre_executed, stream, lastGen,                    nGenerate, nBatches, perm_checked>>

\* Actions whose plugin prints progress lines (data/plugins/search_files).
ProgressActions == {"search_files"}

\* A pool thread: the plugin prints a progress line and _run_subprocess hands
\* it to the callback of make_cb, which puts it on progress_q.
FutureProgress ==
    /\ \E i \in DOMAIN pending :
          /\ pending[i].state = "running"
          /\ pending[i].name \in ProgressActions
          /\ Len(progress_q) < MaxQueue
          /\ progress_q' = Append(progress_q, pending[i].name)
    /\ UNCHANGED <<moreVars, permVars, cacheVars, lockVars, execVars, stop, pc, resume_action,
                   current_loop, loop_history, json_data, found_resume_actions,
                   system_prompt, di, pending, observations, pre_ttl, pre_executed,
                   stream, lastGen, nGenerate, nBatches, executed, perm_checked>>

\* Lines 514-538: one message is taken from progress_q and forwarded.
DrainProgress ==
    /\ pc = "supervise"
    /\ progress_q # <<>>
    /\ stream' = Emit(stream, Ev("content", "progress", Head(progress_q)))
    /\ progress_q' = Tail(progress_q)
    /\ UNCHANGED <<moreVars, permVars, cacheVars, lockVars, execVars, stop, pc, resume_action,
                   current_loop, loop_history, json_data, found_resume_actions,
                   system_prompt, di, pending, observations, pre_ttl, pre_executed,
                   lastGen, nGenerate, nBatches, executed, perm_checked>>

\* Lines 540-544: the queue is drained and futures are pending: wait(...).
StartWait ==
    /\ pc = "supervise"
    /\ progress_q = <<>>
    /\ pending # <<>>
    /\ pc' = "wait"
    /\ UNCHANGED <<moreVars, permVars, cacheVars, lockVars, execVars, stop, progress_q,
                   resume_action, current_loop, loop_history, json_data,
                   found_resume_actions, system_prompt, di, pending, observations,
                   pre_ttl, pre_executed, stream, lastGen, nGenerate, nBatches,
                   executed, perm_checked>>

\* Line 577.
ActionStatusSuccess(exec_status) == "success"
ActionStatus(exec_status) == IF exec_status = "success" THEN "success" ELSE "error"

\* Lines 546-586: a future that wait returned as done is taken from pending
\* and reported.
CollectOutput ==
    /\ pc = "wait"
    /\ \E i \in DOMAIN pending :
          /\ pending[i].state \in {"success", "error"}
          /\ pending' = Remove(pending, i)
          /\ observations' = Append(observations, pending[i].name)
          /\ stream' = Emit(stream, Ev("action_output", ActionStatus(pending[i].state),
                                       pending[i].name))
    /\ UNCHANGED <<moreVars, permVars, cacheVars, lockVars, execVars, stop, progress_q, pc,
                   resume_action, current_loop, loop_history, json_data,
                   found_resume_actions, system_prompt, di, pre_ttl, pre_executed,
                   lastGen, nGenerate, nBatches, executed, perm_checked>>

\* Line 544 and 512: wait timed out, or its done futures are all reported;
\* back to the head of the supervisor loop.
WaitEnd ==
    /\ pc = "wait"
    /\ \A i \in DOMAIN pending : pending[i].state = "running"
    /\ pc' = "supervise"
    /\ UNCHANGED <<moreVars, permVars, cacheVars, lockVars, execVars, stop, progress_q,
                   resume_action, current_loop, loop_history, json_data,
                   found_resume_actions, system_prompt, di, pending, observations,
                   pre_ttl, pre_executed, stream, lastGen, nGenerate, nBatches,
                   executed, perm_checked>>

\* Lines 512 and 589-609: nothing is pending and progress_q is empty; the
\* observations reach the provider only when the first item of loop_history
\* has role system.
Rebuild ==
    /\ pc = "supervise"
    /\ progress_q = <<>>
    /\ pending = <<>>
    /\ system_prompt' =
          IF loop_history # <<>> /\ loop_history[1].role = "system"
          THEN SysPrompt("action_formater", Range(observations))
          ELSE system_prompt
    /\ current_loop' = 1
    /\ pc' = "loop_head"
    /\ UNCHANGED <<moreVars, permVars, cacheVars, lockVars, execVars, stop, progress_q,
                   resume_action, loop_history, json_data, found_resume_actions, di,
                   pending, observations, pre_ttl, pre_executed, stream, lastGen,
                   nGenerate, nBatches, executed, perm_checked>>

\* The caller sets the stop_event it passed to ask_stream.
SetStop ==
    /\ ~stop
    /\ pc \notin {"idle", "done"}
    /\ stop' = TRUE
    /\ UNCHANGED <<moreVars, permVars, cacheVars, lockVars, execVars, progress_q, pc,
                   resume_action, current_loop, loop_history, json_data,
                   found_resume_actions, system_prompt, di, pending, observations,
                   pre_ttl, pre_executed, stream, lastGen, nGenerate, nBatches,
                   executed, perm_checked>>

(***************************************************************************)
(* Action cache under concurrent callers: ActionCache._lock                *)
(***************************************************************************)
Threads == {"t1", "t2"}
CacheOps == {"get", "get_stale", "is_stale", "set", "invalidate", "clear_user"}

\* A caller outside any ActionCache method.
IdleThread ==
    [pc |-> "idle", op |-> None, action_name |-> None, user_id |-> None,
     data |-> None, ttl |-> 0, entry |-> <<>>, keys |-> {}, ret |-> None]

\* Positions inside a `with self._lock:` block.
InLock == {"locked", "age", "del"}

\* threading.Lock: acquire succeeds when no thread holds the lock.
LockIgnored(l) == TRUE
LockFree(l) == l = None

\* Leaving the with block.
Release(t) == IF lock = t THEN None ELSE lock

\* Python's str(bool), so that every return value is a string.
Bool2Str(b) == IF b THEN "True" ELSE "False"

Entry(data, timestamp, ttl) == [data |-> data, timestamp |-> timestamp, ttl |-> ttl]

\* Entry maps earlier calls of set may have left.
InitialMaps ==
    {[k \in K |-> Entry("d1", 0, 1)] :
        K \in {{}, {make_key(n, "u1") : n \in CacheActionNames}, CacheKeys}}

Finish(t, ret) == [thr EXCEPT ![t].pc = "done", ![t].ret = ret]

\* A thread calls a method.  get and set return at once when ttl <= 0 (lines
\* 42-43 and 86-87).
CacheCall ==
    /\ \E t \in Threads, op \in CacheOps, n \in CacheActionNames, u \in CacheUsers,
          d \in CacheData, ttl \in 0..MaxTtl :
          /\ thr[t].pc = "idle"
          /\ thr' = IF op \in {"get", "set"} /\ ttl <= 0
                    THEN Finish(t, None)
                    ELSE [thr EXCEPT ![t] = [IdleThread EXCEPT
                              !.pc = "acquire", !.op = op,
                              !.action_name = IF op = "clear_user" THEN None ELSE n,
                              !.user_id = u,
                              !.data = IF op = "set" THEN d ELSE None,
                              !.ttl = IF op \in {"get", "is_stale", "set"} THEN ttl ELSE 0]]
    /\ UNCHANGED <<moreVars, permVars, cacheVars, turnVars, execVars, lock, held>>

\* `with self._lock:` is entered.
CacheAcquire ==
    /\ \E t \in Threads :
          /\ thr[t].pc = "acquire"
          /\ LockFree(lock)
          /\ lock' = t
          /\ held' = cache
          /\ thr' = [thr EXCEPT ![t].pc = "locked"]
    /\ UNCHANGED <<moreVars, permVars, cacheVars, turnVars, execVars>>

\* The first statement of a method's with block.
BodyLocked(t) ==
    LET c   == thr[t]
        key == make_key(c.action_name, c.user_id)
    IN CASE c.op \in {"get", "is_stale"} ->
              /\ thr' = IF key \in DOMAIN cache
                        THEN [thr EXCEPT ![t].pc = "age", ![t].entry = <<cache[key]>>]
                        ELSE Finish(t, IF c.op = "get" THEN None ELSE "True")
              /\ lock' = IF key \in DOMAIN cache THEN lock ELSE Release(t)
              /\ UNCHANGED cache
         [] c.op = "get_stale" ->
              /\ thr' = Finish(t, IF key \in DOMAIN cache THEN cache[key].data ELSE None)
              /\ lock' = Release(t)
              /\ UNCHANGED cache
         [] c.op = "set" ->
              /\ cache' = Put(cache, key, Entry(c.data, now, c.ttl))
              /\ thr' = Finish(t, None)
              /\ lock' = Release(t)
         [] c.op = "invalidate" ->
              /\ thr' = IF key \in DOMAIN cache
                        THEN [thr EXCEPT ![t].pc = "del", ![t].keys = {key}]
                        ELSE Finish(t, None)
              /\ lock' = IF key \in DOMAIN cache THEN lock ELSE Release(t)
              /\ UNCHANGED cache
         [] c.op = "clear_user" ->
              LET keys_to_remove == {k \in DOMAIN cache : EndsWith(k, ":" \o c.user_id)} IN
              /\ thr' = IF keys_to_remove # {}
                        THEN [thr EXCEPT ![t].pc = "del", ![t].keys = keys_to_remove]
                        ELSE Finish(t, None)
              /\ lock' = IF keys_to_remove # {} THEN lock ELSE Release(t)
              /\ UNCHANGED cache

\* Lines 52-54 and 81-82: the age of the entry that was looked up.
BodyAge(t) ==
    LET c   == thr[t]
        age == now - c.entry[1].timestamp
    IN /\ thr' = Finish(t, IF c.op = "get"
                           THEN (IF age < c.ttl THEN c.entry[1].data ELSE None)
                           ELSE Bool2Str(age >= c.ttl))
       /\ lock' = Release(t)
       /\ UNCHANGED cache

\* Lines 104 and 110-111: `del self._cache[key]`, KeyError when key is gone.
BodyDel(t) ==
    LET c == thr[t]
        k == CHOOSE x \in c.keys : TRUE
    IN IF k \notin DOMAIN cache
       THEN /\ thr' = [thr EXCEPT ![t].pc = "raised"]
            /\ lock' = Release(t)
            /\ UNCHANGED cache
       ELSE /\ cache' = Drop(cache, {k})
            /\ thr' = IF c.keys = {k} THEN Finish(t, None)
                      ELSE [thr EXCEPT ![t].keys = c.keys \ {k}]
            /\ lock' = IF c.keys = {k} THEN Release(t) ELSE lock

\* One statement of a thread that is inside a with block.
CacheBody ==
    /\ \E t \in Threads :
          CASE thr[t].pc = "locked" -> BodyLocked(t)
            [] thr[t].pc = "age"    -> BodyAge(t)
            [] thr[t].pc = "del"    -> BodyDel(t)
            [] OTHER -> FALSE
    /\ UNCHANGED <<moreVars, permVars, now, lastSet, turnVars, execVars, held>>

(***************************************************************************)
(* Execution engine: ActionExecutor._run_subprocess, and                   *)
(* AIAgent.cancel_current_action                                           *)
(***************************************************************************)
MaxLines == 3           \* lines a child writes to stdout

\* A stdout line, by what _run_subprocess can tell about it:
\*   progress  {"status": "progress", ...}      match   {"status": "match", ...}
\*   object    any other JSON object            array   JSON, but not an object
\*   text      not JSON                         bad     starts with { , not JSON
LineKinds == {"progress", "match", "object", "array", "text", "bad"}

StartsWithBrace(line) == line \in {"progress", "match", "object", "bad"}
ParsesAsJson(line)    == line \in {"progress", "match", "object", "array"}

\* data.get("status") of a parsed object.
StatusOf(line) ==
    IF line \in {"progress", "match"} THEN line ELSE None

Outputs == UNION {[1..n -> LineKinds] : n \in 0..MaxLines}

\* Lines 204-210: whether a line just read goes to progress_callback.
Forwards(callback, line) ==
    callback /\ StartsWithBrace(line) /\ ParsesAsJson(line)
             /\ StatusOf(line) = "progress"

\* Lines 222-230: the scan of reversed(stdout_lines).  i is the line the scan
\* is at, output_data the line whose JSON the variable holds (0: None).
RECURSIVE ScanReversed(_, _, _)
ScanReversed(lines, i, output_data) ==
    IF i = 0 THEN output_data
    ELSE IF ~StartsWithBrace(lines[i]) THEN ScanReversed(lines, i - 1, output_data)
    ELSE IF ~ParsesAsJson(lines[i]) THEN ScanReversed(lines, i - 1, output_data)
    ELSE IF StatusOf(lines[i]) # "progress" THEN i
    ELSE ScanReversed(lines, i - 1, i)

\* json.loads(full_stdout) succeeds when stdout is one JSON line.
WholeParses(lines) == Len(lines) = 1 /\ ParsesAsJson(lines[1])

ExecResult(status, kind, line) == [status |-> status, kind |-> kind, line |-> line]
NoResult == ExecResult(None, None, 0)

\* Lines 215-239: what execute returns once the child has exited.
\*   kind "line":  output is the JSON of stdout line `line`
\*   kind "whole": output is the JSON of the whole of stdout
\*   kind "raw":   output is the string full_stdout
RunResult(lines, return_code) ==
    IF return_code # 0 THEN ExecResult("error", "stderr", 0)
    ELSE LET output_data == ScanReversed(lines, Len(lines), 0) IN
         IF output_data # 0 THEN ExecResult("success", "line", output_data)
         ELSE IF WholeParses(lines) THEN ExecResult("success", "whole", 0)
         ELSE ExecResult("success", "raw", 0)

\* Lines 194-210: readline returns the child's next line.
ReadLine ==
    /\ child_out # <<>>
    /\ exit_code = <<>>
    /\ stdout_lines' = Append(stdout_lines, Head(child_out))
    /\ child_out' = Tail(child_out)
    /\ callback_log' =
          IF Forwards(progress_callback, Head(child_out))
          THEN Append(callback_log, Len(stdout_lines) + 1)
          ELSE callback_log
    /\ UNCHANGED <<moreVars, permVars, cacheVars, turnVars, lockVars, progress_callback,
                   exit_code, exec_result, active_action_ids, cancel_result>>

\* Lines 196-198 and 212-239: readline returns "" and the child has exited.
ChildExit ==
    /\ child_out = <<>>
    /\ exit_code = <<>>
    /\ \E return_code \in {0, 1} :
          /\ exit_code' = <<return_code>>
          /\ exec_result' = RunResult(stdout_lines, return_code)
    /\ UNCHANGED <<moreVars, permVars, cacheVars, turnVars, lockVars, child_out, stdout_lines,
                   callback_log, progress_callback, active_action_ids, cancel_result>>

\* core.py 118-124.  ActionExecutor defines no cancel_action: the attribute
\* lookup of line 123 raises AttributeError, and the child is left alone.
CancelCurrentAction ==
    /\ cancel_result = None
    /\ cancel_result' = IF active_action_ids = None THEN "False" ELSE "AttributeError"
    /\ UNCHANGED <<moreVars, permVars, cacheVars, turnVars, lockVars, child_out, stdout_lines,
                   callback_log, progress_callback, exit_code, exec_result,
                   active_action_ids>>

(***************************************************************************)
(* Execution engine: the environment ActionExecutor.execute builds         *)
(***************************************************************************)
\* action_def["role"] as _scan_dir sets it, context["user_id"] (None and the
\* empty string are falsy), and action_def["spec"]["type"].
Roles       == {"system", "user"}
NoUserId    == {None, ""}
HomeUserIds == {"1", "2"}
ActionTypes == {"python", "python_inproc", "process", "shell"}

\* os.getcwd(), and os.path.join of segments.
Cwd == <<"srv">>
PathJoin(a, b) == a \o b

\* os.path.normpath on segments: "." is dropped and ".." takes the segment
\* before it away.
RECURSIVE NormPath(_, _)
NormPath(path, done) ==
    IF path = <<>> THEN done
    ELSE IF Head(path) = "." THEN NormPath(Tail(path), done)
    ELSE IF Head(path) = ".."
    THEN NormPath(Tail(path), IF done = <<>> THEN done ELSE SubSeq(done, 1, Len(done) - 1))
    ELSE NormPath(Tail(path), Append(done, Head(path)))

\* os.path.abspath of a relative path.
abspath(path) == NormPath(PathJoin(Cwd, path), <<>>)

\* Lines 83-89: the home by role and user.
HomeSegmentsShared(role, user_id) == <<"bot_data", "_system">>
HomeSegments(role, user_id) ==
    IF role = "system" THEN <<"bot_data", "_system">>
    ELSE IF role = "user" /\ user_id \notin NoUserId
    THEN PathJoin(<<"bot_data", "users">>, <<user_id>>)
    ELSE <<"data", "tmp">>

\* Lines 74-118: execute for an action of the given role and type, run for
\* user_id.  The in-process type runs the script in the server and the
\* unknown type returns an error: neither starts a child.
Execute ==
    /\ \E role \in Roles, user_id \in NoUserId \cup HomeUserIds, type \in ActionTypes :
          LET home == abspath(HomeSegments(role, user_id)) IN
          /\ genesis_home' = home
          /\ fs_dirs' = fs_dirs \cup {home}
          /\ child_env' = IF type \in {"python", "process"} THEN <<home>> ELSE <<>>
          /\ home_call' = [role |-> role, user_id |-> user_id, type |-> type]
    /\ UNCHANGED <<permVars, cacheVars, turnVars, lockVars, execVars, plugVars, cronVars, schedVars, lateVars>>

\* Something else removes a directory (data/tmp is cleaned).
RemoveDir ==
    /\ \E d \in fs_dirs : fs_dirs' = fs_dirs \ {d}
    /\ UNCHANGED <<permVars, cacheVars, turnVars, lockVars, execVars, plugVars, cronVars, schedVars, lateVars,
                   genesis_home, child_env, home_call>>

(***************************************************************************)
(* Plugin archives (modules/actions/gplug.py) and the action registry      *)
(* (modules/actions/registry.py)                                           *)
(***************************************************************************)
\* A manifest is a dict: a function from the keys it has to their values.
\* Every value is written as a sequence of strings: "id" <<id>>, "actions"
\* the names of the actions it declares, "integrity" <<sha256>> (or <<>> for
\* a block without sha256; signed_at is left out), "_path" the segments of a
\* path and "_role" <<role>>.
Manifest(id, names) ==
    [k \in {"id", "name", "version", "actions"} |->
        CASE k = "id" -> <<id>>
          [] k = "name" -> <<"n">>
          [] k = "version" -> <<"1">>
          [] k = "actions" -> names]

\* json.dumps(manifest_copy, sort_keys=True, separators=(',', ':')) and its
\* SHA-256: the text of the keys in sorted order, as the digest.
SortedKeys == <<"_path", "_role", "actions", "id", "integrity", "name", "version">>
RECURSIVE JoinStr(_)
JoinStr(value) ==
    IF value = <<>> THEN ""
    ELSE IF Len(value) = 1 THEN Head(value)
    ELSE Head(value) \o "," \o JoinStr(Tail(value))
RECURSIVE Dumps(_, _)
Dumps(manifest, i) ==
    IF i > Len(SortedKeys) THEN ""
    ELSE LET k == SortedKeys[i] IN
         (IF k \in DOMAIN manifest THEN k \o ":[" \o JoinStr(manifest[k]) \o "]," ELSE "")
            \o Dumps(manifest, i + 1)

\* gplug.calculate_manifest_hash
calculate_manifest_hash_whole(manifest) == Dumps(manifest, 1)
calculate_manifest_hash(manifest) == Dumps(Drop(manifest, {"integrity"}), 1)

\* gplug.sign_manifest
sign_manifest(manifest) ==
    Put(manifest, "integrity", <<calculate_manifest_hash(manifest)>>)

\* gplug.verify_manifest: whether the manifest is accepted.
verify_manifest_lenient(manifest) == TRUE
verify_manifest(manifest) ==
    IF "integrity" \notin DOMAIN manifest THEN TRUE
    ELSE IF manifest["integrity"] = <<>> THEN FALSE
    ELSE calculate_manifest_hash(manifest) = Head(manifest["integrity"])

\* Manifests of plugin folders: two valid ones that both declare a1, one
\* without "id", one without "name" that carries a "_role" key, and the
\* first with an integrity block already in it, out of date or as an earlier
\* pack left it.
V1 == Manifest("p1", <<"a1">>)
V2 == Manifest("p2", <<"a1", "a2">>)
B2 == Drop(Manifest("p1", <<"a1">>), {"id"})
B3 == Put(Drop(Manifest("p2", <<"a2">>), {"name"}), "_role", <<"system">>)
Sources ==
    [V1 |-> V1, V2 |-> V2, B2 |-> B2, B3 |-> B3,
     V1stale |-> Put(V1, "integrity", <<"0000">>),
     V1signed |-> sign_manifest(V1)]

\* gplug.pack_plugin: the manifest.json that goes into the archive.
pack_plugin(manifest) == sign_manifest(manifest)

\* Uploaded archives, by name: pack_plugin of a source; a packed archive
\* whose manifest was edited afterwards; one whose integrity block has no
\* sha256; and a ZIP made by hand, with no integrity block.
Edited(manifest) == Put(manifest, "version", <<"2">>)
Archives ==
    [src \in DOMAIN Sources |-> pack_plugin(Sources[src])]
Tampered ==
    [V1edited |-> Edited(pack_plugin(V1)),
     V1nosha  |-> Put(V1, "integrity", <<>>)]
Unsigned ==
    [V2raw |-> V2]
ArchiveNames == DOMAIN Archives \cup DOMAIN Tampered \cup DOMAIN Unsigned
ArchiveManifest(name) ==
    IF name \in DOMAIN Archives THEN Archives[name]
    ELSE IF name \in DOMAIN Tampered THEN Tampered[name]
    ELSE Unsigned[name]

\* Plugin directories: data/plugins/<dir> and
\* bot_data/users/<user_id>/plugins/<dir>, as <<scope, dir>>.
InstallScopes == {"system"}
RoleOf(path) == path[1]

\* registry._validate_manifest
required_fields == {"id", "name", "version", "actions"}
validate_manifest(manifest) == required_fields \subseteq DOMAIN manifest

\* registry._register_actions_from_manifest, on the actions map: every
\* named action of the manifest is stored under its name.
ActionMeta(manifest) ==
    [plugin_id |-> Head(manifest["id"]), role |-> Head(manifest["_role"]),
     path |-> manifest["_path"]]
register_first(acts, name, meta) == IF name \in DOMAIN acts THEN acts ELSE Put(acts, name, meta)
register(acts, name, meta) == Put(acts, name, meta)
RECURSIVE RegisterNames(_, _, _)
RegisterNames(acts, names, meta) ==
    IF names = <<>> THEN acts
    ELSE RegisterNames(register(acts, Head(names), meta), Tail(names), meta)
register_actions_from_manifest(acts, manifest) ==
    RegisterNames(acts,
                  IF "actions" \in DOMAIN manifest THEN manifest["actions"] ELSE <<>>,
                  ActionMeta(manifest))

\* Lines 40-57 of _scan_dir for one directory entry, on a registry
\* [plugins, actions].
LoadEntry(reg, files, path) ==
    LET manifest == files[path] IN
    IF validate_manifest(manifest)
    THEN LET loaded == Put(Put(manifest, "_path", path), "_role", <<RoleOf(path)>>) IN
         [plugins |-> Put(reg.plugins, Head(manifest["id"]), loaded),
          actions |-> register_actions_from_manifest(reg.actions, loaded)]
    ELSE reg
RECURSIVE LoadAll(_, _, _)
LoadAll(reg, files, order) ==
    IF order = <<>> THEN reg
    ELSE LoadAll(LoadEntry(reg, files, Head(order)), files, Tail(order))

\* The orders os.scandir may list a set of directories in.
Orders(S) ==
    {o \in [1..Cardinality(S) -> S] : \A i, j \in DOMAIN o : i # j => o[i] # o[j]}
DirsOf(files, scope) == {path \in DOMAIN files : path[1] = scope}

\* One operation on the registry, for the record: its kind, its argument (an
\* archive name or a plugin id), the install scope, its outcome and the order
\* a scan went in.
Op(kind, arg, scope, result, order) ==
    [kind |-> kind, arg |-> arg, scope |-> scope, result |-> result, order |-> order]
NoOp == Op(None, None, None, None, <<>>)

\* ActionRegistry(): a request handler makes a registry of its own.
NewRegistry ==
    /\ plugins # <<>> \/ actions # <<>>
    /\ plugins' = <<>>
    /\ actions' = <<>>
    /\ plug_op' = Op("new", None, None, None, <<>>)
    /\ UNCHANGED <<permVars, cacheVars, turnVars, lockVars, execVars, homeVars, cronVars, schedVars, lateVars, disk>>

\* scan_plugins(user_id): the system directory, then the user's.
ScanPlugins ==
    /\ \E with_user \in BOOLEAN :
       \E sys \in Orders(DirsOf(disk, "system")) :
       \E usr \in Orders(IF with_user THEN DirsOf(disk, "user") ELSE {}) :
          LET reg == LoadAll([plugins |-> plugins, actions |-> actions], disk, sys \o usr) IN
          /\ plugins' = reg.plugins
          /\ actions' = reg.actions
          /\ plug_op' = Op("scan", None, None, None, sys \o usr)
    /\ UNCHANGED <<permVars, cacheVars, turnVars, lockVars, execVars, homeVars, cronVars, schedVars, lateVars, disk>>

\* gplug.unpack_plugin into the directory of the scope: the final path.
FinalPath(manifest, scope) ==
    <<scope, IF "id" \in DOMAIN manifest THEN Head(manifest["id"]) ELSE "unknown_plugin">>

\* install_plugin(gplug_path, user_id, scope): unpack_plugin raises ValueError
\* before it writes when verify_manifest rejects the manifest; otherwise the
\* folder replaces what is at the final path, and lines 123-124 register the
\* manifest read back from it, which has "_path" but "_role" only when the
\* archive's manifest has it.
InstallPlugin ==
    /\ \E name \in ArchiveNames, scope \in InstallScopes :
          LET manifest == ArchiveManifest(name)
              final    == FinalPath(manifest, scope)
              unpacked == Put(manifest, "_path", final)
          IN IF ~verify_manifest(manifest)
             THEN /\ plug_op' = Op("install", name, scope, "ValueError", <<>>)
                  /\ UNCHANGED <<disk, plugins, actions>>
             ELSE /\ disk' = Put(disk, final, manifest)
                  /\ IF {"id", "_role"} \subseteq DOMAIN unpacked
                     THEN /\ actions' = register_actions_from_manifest(actions, unpacked)
                          /\ plugins' = Put(plugins, Head(unpacked["id"]), unpacked)
                          /\ plug_op' = Op("install", name, scope, "installed", <<>>)
                     ELSE /\ plug_op' = Op("install", name, scope, "KeyError", <<>>)
                          /\ UNCHANGED <<plugins, actions>>
    /\ UNCHANGED <<permVars, cacheVars, turnVars, lockVars, execVars, homeVars, cronVars, schedVars, lateVars>>

\* Lines 168-171 of delete_plugin: the names purged.
actions_to_remove_all(acts, plugin_id) == DOMAIN acts
actions_to_remove(acts, plugin_id) ==
    {name \in DOMAIN acts : acts[name].plugin_id = plugin_id}

\* delete_plugin(plugin_id)
PluginIds == {"p1", "p2"}
DeletePlugin ==
    /\ \E plugin_id \in PluginIds :
          IF plugin_id \notin DOMAIN plugins
          THEN /\ plug_op' = Op("delete", plugin_id, None, "False", <<>>)
               /\ UNCHANGED <<disk, plugins, actions>>
          ELSE /\ disk' = Drop(disk, {plugins[plugin_id]["_path"]})
               /\ plugins' = Drop(plugins, {plugin_id})
               /\ actions' = Drop(actions, actions_to_remove(actions, plugin_id))
               /\ plug_op' = Op("delete", plugin_id, None, "True", <<>>)
    /\ UNCHANGED <<permVars, cacheVars, turnVars, lockVars, execVars, homeVars, cronVars, schedVars, lateVars>>

(***************************************************************************)
(* Task scheduler: TaskScheduler._should_run                               *)
(***************************************************************************)
\* int(text) for the texts a schedule field is drawn from: the value of a
\* non-empty run of digits as <<value>>, and <<>> where int raises ValueError.
Digits == <<"0", "1", "2", "3", "4", "5", "6", "7", "8", "9">>
IsDigit(c) == \E d \in DOMAIN Digits : Digits[d] = c
DigitValue(c) == (CHOOSE d \in DOMAIN Digits : Digits[d] = c) - 1
RECURSIVE IntValue(_, _)
IntValue(text, acc) ==
    IF text = "" THEN acc
    ELSE IntValue(SubSeq(text, 2, Len(text)), 10 * acc + DigitValue(SubSeq(text, 1, 1)))
int(text) ==
    IF text # "" /\ \A i \in 1..Len(text) : IsDigit(SubSeq(text, i, i))
    THEN <<IntValue(text, 0)>>
    ELSE <<>>

\* str.startswith("*/") and minute[2:]
StartsWithEvery(field) == Len(field) >= 2 /\ SubSeq(field, 1, 2) = "*/"
AfterEvery(field) == SubSeq(field, 3, Len(field))

\* Lines 201-207: the minute test passes.
MinutePasses(minute, now_minute) ==
    IF minute = "*" THEN TRUE
    ELSE IF StartsWithEvery(minute)
    THEN LET interval == int(AfterEvery(minute)) IN
         /\ interval # <<>>                 \* else ValueError, caught at 216
         /\ interval # <<0>>                \* else ZeroDivisionError, caught at 216
         /\ now_minute % interval[1] = 0
    ELSE int(minute) = <<now_minute>>

\* Line 210: the hour test passes; int(hour) raises for every text but digits.
HourPasses(hour, now_hour) ==
    hour = "*" \/ int(hour) = <<now_hour>>

\* str.split(): the maximal runs of characters other than spaces.
RECURSIVE SplitFrom(_, _, _)
SplitFrom(text, word, out) ==
    LET done == IF word = "" THEN out ELSE Append(out, word) IN
    IF text = "" THEN done
    ELSE IF SubSeq(text, 1, 1) = " "
    THEN SplitFrom(SubSeq(text, 2, Len(text)), "", done)
    ELSE SplitFrom(SubSeq(text, 2, Len(text)), word \o SubSeq(text, 1, 1), out)
split(text) == SplitFrom(text, "", <<>>)

\* _should_run(schedule, now), on now's hour and minute.  A schedule of None
\* has no split, and the AttributeError is caught at 216 like every error.
should_run(schedule, at) ==
    LET parts == split(schedule) IN
    /\ schedule # None
    /\ Len(parts) = 5
    /\ MinutePasses(parts[1], at.minute)
    /\ HourPasses(parts[2], at.hour)

\* Schedules: every pair of a minute and an hour field with three tails for
\* day, month and weekday, and two of the wrong length.
MinuteFields == {"*", "*/2", "*/0", "*/x", "0", "5", "x"}
HourFields   == {"*", "*/2", "12", "x"}
Tails        == {"* * *", "1 1 1", "x */3 9"}
Schedules ==
    {m \o " " \o h \o " " \o t : m \in MinuteFields, h \in HourFields, t \in Tails}
        \cup {"* * * *", "* * * * * *", " *  * * * * ", ""}
ClockTimes == [hour : {11, 12}, minute : {0, 5, 6}]

\* _should_run is called on the schedule at the time.
ShouldRun ==
    /\ cron_result = None
    /\ cron_result' = Bool2Str(should_run(cron_schedule, cron_now))
    /\ UNCHANGED <<permVars, cacheVars, turnVars, lockVars, execVars, homeVars, plugVars,
                   schedVars, lateVars, cron_schedule, cron_now>>

\* The clock shows another time.
CronClock ==
    /\ \E at \in ClockTimes \ {cron_now} : cron_now' = at
    /\ cron_result' = None
    /\ UNCHANGED <<permVars, cacheVars, turnVars, lockVars, execVars, homeVars, plugVars,
                   schedVars, lateVars, cron_schedule>>

(***************************************************************************)
(* Task scheduler: TaskScheduler and its background loop                   *)
(***************************************************************************)
MinuteLen == 1          \* clock ticks in a minute
MaxDur    == 1          \* ticks an execution of an action may take
MaxClock  == 3          \* tick after which the clock stops

\* str(uuid.uuid4())[:8] of create_task, and an id no task has.
TaskIds       == <<"t1">>
UnknownTask   == "t9"
TaskActions   == {"a1"}
TaskSchedules == {None, "* * * * *", "1 * * * *"}
TaskUsers     == {None, "1"}
ScanKinds     == {"none", "system", "user"}

\* The plugin directories the scheduler runs against: a1 in the system
\* plugin, and again, with a2, in the plugin of user "1".
SchedDisk == Put(Put(<<>>, <<"system", "p1">>, V1), <<"user", "p2">>, V2)

\* datetime.now() at a tick: the hour and the minute.
ClockOf(tick) ==
    [hour |-> (tick \div (60 * MinuteLen)) % 24, minute |-> (tick \div MinuteLen) % 60]
MinuteOf(tick) == tick \div MinuteLen

\* The record create_task stores (lines 60-71).
Task(task_id, action, schedule, user_id) ==
    [id |-> task_id, action |-> action, schedule |-> schedule, user_id |-> user_id,
     status |-> "active", last_run |-> <<>>]

HasTask(table, task_id) == \E i \in DOMAIN table : table[i].id = task_id
IndexOf(table, task_id) == CHOOSE i \in DOMAIN table : table[i].id = task_id

\* dict.update(updates)
Merge(task, updates) ==
    [k \in DOMAIN task \cup DOMAIN updates |-> IF k \in DOMAIN updates THEN updates[k] ELSE task[k]]
TaskUpdates ==
    [status : {"active", "paused"}] \cup [schedule : TaskSchedules]

\* registry.get_action(action_name) found the action (lines 122-125).
ResolvesAlways(registered, action_name) == TRUE
Resolves(registered, action_name) == action_name \in DOMAIN registered

\* run_task(task_id, executor, registry) on a task table, ending at tick
\* finish: the result's status and the table it leaves.
run_task(table, task_id, provided, registered, finish) ==
    IF ~HasTask(table, task_id)
    THEN [status |-> "error", error |-> "Task not found", tasks |-> table]
    ELSE IF ~provided
    THEN [status |-> "error", error |-> "No executor/registry provided", tasks |-> table]
    ELSE IF ~Resolves(registered, table[IndexOf(table, task_id)].action)
    THEN [status |-> "error", error |-> "Action not found", tasks |-> table]
    ELSE [status |-> "executed", error |-> None,
          tasks |-> [table EXCEPT ![IndexOf(table, task_id)].last_run = <<finish>>]]

\* The loop's tests at lines 158-163.
EligibleAny(task) == TRUE
Eligible(task) == task.status = "active" /\ task.schedule \notin {None, ""}

\* The for loop of _scheduler_loop from item i on: moment is the loop's now,
\* tick the clock as the item is reached, durs the ticks each execution
\* takes, scanned the actions a new registry holds for a task's user.
RECURSIVE LoopOver(_, _, _, _, _, _)
LoopOver(table, i, moment, tick, durs, scanned) ==
    IF i > Len(table) THEN [tasks |-> table, tick |-> tick, fired |-> {}]
    ELSE IF Eligible(table[i]) /\ should_run(table[i].schedule, ClockOf(moment))
    THEN LET r    == run_task(table, table[i].id, TRUE, scanned[table[i].user_id], tick + durs[i])
             ran  == r.status # "error"
             rest == LoopOver(r.tasks, i + 1, moment, IF ran THEN tick + durs[i] ELSE tick,
                              durs, scanned)
         IN  [rest EXCEPT !.fired = IF ran THEN @ \cup {[id |-> table[i].id, start |-> tick]}
                                           ELSE @]
    ELSE LoopOver(table, i + 1, moment, tick, durs, scanned)

\* One operation on the scheduler, for the record.
SchedOp(kind, task_id, provided, registered, status, fired) ==
    [kind |-> kind, id |-> task_id, provided |-> provided, registered |-> registered,
     status |-> status, fired |-> fired]
NoSchedOp == SchedOp(None, None, FALSE, {}, None, {})

\* create_task(name, action, schedule, user_id, args)
CreateTask ==
    /\ created < Len(TaskIds)
    /\ \E action \in TaskActions, schedule \in TaskSchedules, user_id \in TaskUsers :
          LET task_id == TaskIds[created + 1] IN
          /\ tasks' = Append(tasks, Task(task_id, action, schedule, user_id))
          /\ changed_at' = Put(changed_at, task_id, clock)
          /\ sched_op' = SchedOp("create", task_id, FALSE, {}, None, {})
    /\ created' = created + 1
    /\ UNCHANGED <<permVars, cacheVars, turnVars, lockVars, execVars, homeVars, plugVars,
                   cronVars, lateVars, running, clock, wake, fire_log>>

\* update_task(task_id, updates)
UpdateTask ==
    /\ \E task_id \in {tasks[i].id : i \in DOMAIN tasks} \cup {UnknownTask},
          updates \in TaskUpdates :
          IF ~HasTask(tasks, task_id)
          THEN /\ sched_op' = SchedOp("update", task_id, FALSE, {}, "False", {})
               /\ UNCHANGED <<tasks, changed_at>>
          ELSE /\ tasks' = [tasks EXCEPT ![IndexOf(tasks, task_id)] = Merge(@, updates)]
               /\ changed_at' = Put(changed_at, task_id, clock)
               /\ sched_op' = SchedOp("update", task_id, FALSE, {}, "True", {})
    /\ UNCHANGED <<permVars, cacheVars, turnVars, lockVars, execVars, homeVars, plugVars,
                   cronVars, lateVars, running, clock, wake, created, fire_log>>

\* delete_task(task_id)
DeleteTask ==
    /\ \E task_id \in {tasks[i].id : i \in DOMAIN tasks} \cup {UnknownTask} :
          IF ~HasTask(tasks, task_id)
          THEN /\ sched_op' = SchedOp("delete", task_id, FALSE, {}, "False", {})
               /\ tasks' = tasks
          ELSE /\ tasks' = [i \in 1..(Len(tasks) - 1) |->
                               IF i < IndexOf(tasks, task_id) THEN tasks[i] ELSE tasks[i + 1]]
               /\ sched_op' = SchedOp("delete", task_id, FALSE, {}, "True", {})
    /\ UNCHANGED <<permVars, cacheVars, turnVars, lockVars, execVars, homeVars, plugVars,
                   cronVars, lateVars, running, clock, wake, created, fire_log, changed_at>>

\* The calls of run_task: with an executor and a new registry as it is, after
\* scan_plugins() as the route makes it, or after scan_plugins(user_id); and
\* with a scanned registry but no executor.
RunCalls ==
    [provided : {TRUE}, scan : ScanKinds] \cup {[provided |-> FALSE, scan |-> "user"]}

\* run_task(task_id, executor, registry) from a caller.
RunTask ==
    /\ \E task_id \in {tasks[i].id : i \in DOMAIN tasks} \cup {UnknownTask}, call \in RunCalls :
       \E sys \in Orders(IF call.scan = "none" THEN {} ELSE DirsOf(disk, "system")) :
       \E usr \in Orders(IF call.scan = "user" THEN DirsOf(disk, "user") ELSE {}) :
          LET registered == LoadAll([plugins |-> <<>>, actions |-> <<>>], disk, sys \o usr).actions
              r == run_task(tasks, task_id, call.provided, registered, clock)
          IN  /\ tasks' = r.tasks
              /\ sched_op' = SchedOp("run", task_id, call.provided, DOMAIN registered, r.status,
                                     IF r.status = "error" THEN {}
                                     ELSE {[id |-> task_id, start |-> clock]})
    /\ UNCHANGED <<permVars, cacheVars, turnVars, lockVars, execVars, homeVars, plugVars,
                   cronVars, lateVars, running, clock, wake, created, fire_log, changed_at>>

\* One pass of the while loop of _scheduler_loop, from datetime.now() to the
\* call of time.sleep(60): the clock moves by the time the executions take.
LoopIteration ==
    /\ running
    /\ clock = wake
    /\ \E durs \in [DOMAIN tasks -> 0..MaxDur] :
       \E sys \in Orders(DirsOf(disk, "system")) :
       \E usr \in Orders(DirsOf(disk, "user")) :
          LET scanned == [u \in TaskUsers |->
                             IF u \in NoUserId THEN <<>>
                             ELSE LoadAll([plugins |-> <<>>, actions |-> <<>>], disk,
                                          sys \o usr).actions]
              r == LoopOver(tasks, 1, clock, clock, durs, scanned)
          IN  /\ tasks' = r.tasks
              /\ clock' = r.tick
              /\ wake' = r.tick + MinuteLen
              /\ fire_log' = fire_log \cup r.fired
              /\ sched_op' = SchedOp("loop", None, TRUE, {}, None, r.fired)
    /\ UNCHANGED <<permVars, cacheVars, turnVars, lockVars, execVars, homeVars, plugVars,
                   cronVars, lateVars, running, created, changed_at>>

\* Time passes; the sleeping loop wakes when its sleep ends.
ClockTick ==
    /\ clock < MaxClock
    /\ running => clock < wake
    /\ clock' = clock + 1
    /\ sched_op' = SchedOp("tick", None, FALSE, {}, None, {})
    /\ UNCHANGED <<permVars, cacheVars, turnVars, lockVars, execVars, homeVars, plugVars,
                   cronVars, lateVars, tasks, running, wake, created, fire_log, changed_at>>

(***************************************************************************)
(* modules/ai_agent/providers: QwenProvider.generate and                   *)
(* GeminiProvider.generate, one streamed generation                        *)
(***************************************************************************)
THINK_START_TOKEN == "<think>"
THINK_END_TOKEN   == "</think>"

\* A streamed chunk is a run of pieces of text: the two tags and plain text.
MaxChunks == 3
Chunks ==
    { <<THINK_START_TOKEN>>, <<"a">>, <<THINK_END_TOKEN>>,
      <<"a", THINK_END_TOKEN, "b">>, <<THINK_START_TOKEN, "a">> }
RECURSIVE StreamsUpTo(_)
StreamsUpTo(n) ==
    IF n = 0 THEN {<<>>}
    ELSE LET shorter == StreamsUpTo(n - 1) IN
         shorter \cup {Append(s, c) : s \in {t \in shorter : Len(t) = n - 1}, c \in Chunks}
Providers == {"qwen", "gemini"}

\* str.replace(token, ""): the chunk without that token.
Without(chunk, token) == SelectSeq(chunk, LAMBDA piece : piece # token)
\* Where the first occurrence of the token is, 0 when there is none.
FirstAt(chunk, token) ==
    IF \E i \in 1..Len(chunk) : chunk[i] = token
    THEN CHOOSE i \in 1..Len(chunk) :
            chunk[i] = token /\ \A j \in 1..(i - 1) : chunk[j] # token
    ELSE 0
\* chunk.split(token)[0] and [1] of a chunk holding the token.
PartBefore(chunk, token) == SubSeq(chunk, 1, FirstAt(chunk, token) - 1)
PartAfter(chunk, token) ==
    LET rest == SubSeq(chunk, FirstAt(chunk, token) + 1, Len(chunk)) IN
    IF FirstAt(rest, token) = 0 THEN rest ELSE PartBefore(rest, token)

\* What the body of `for new_text in streamer` yields for one chunk, and the
\* is_thinking and has_started_thinking it leaves (qwen_provider.py 148-189).
QwenBody(chunk, thinking, started) ==
    LET starts   == thinking /\ FirstAt(chunk, THINK_START_TOKEN) # 0 /\ ~started
        to_yield == IF starts THEN Without(chunk, THINK_START_TOKEN) ELSE chunk
    IN  IF thinking
        THEN IF FirstAt(to_yield, THINK_END_TOKEN) # 0
             THEN [ yields |->
                      (IF PartBefore(to_yield, THINK_END_TOKEN) # <<>>
                       THEN <<"thinking">> ELSE <<>>)
                      \o <<"thinking_finished">>
                      \o (IF PartAfter(to_yield, THINK_END_TOKEN) # <<>>
                          THEN <<"content">> ELSE <<>>),
                    thinking |-> FALSE,
                    started  |-> started \/ starts ]
             ELSE [ yields |->
                      IF Without(to_yield, THINK_START_TOKEN) # <<>>
                      THEN <<"thinking">> ELSE <<>>,
                    thinking |-> TRUE,
                    started  |-> started \/ starts ]
        ELSE [ yields |->
                 IF Without(chunk, THINK_END_TOKEN) # <<>> THEN <<"content">> ELSE <<>>,
               thinking |-> FALSE,
               started  |-> started ]

\* QwenProvider.generate: one pass of `for new_text in streamer`.
QwenChunk ==
    /\ provider = "qwen"
    /\ ~prov_done
    /\ ~stop_event
    /\ streamer # <<>>
    /\ LET body == QwenBody(Head(streamer), is_thinking, has_started_thinking) IN
        /\ prov_events' = prov_events \o body.yields
        /\ is_thinking' = body.thinking
        /\ has_started_thinking' = body.started
    /\ streamer' = Tail(streamer)
    /\ UNCHANGED <<provOthers, provider, use_thinking, stop_event, prov_done>>

\* QwenProvider.generate: the streamer is exhausted, or stop_event is set
\* (the break at 143-144); the generator returns.
QwenReturn ==
    /\ provider = "qwen"
    /\ ~prov_done
    /\ stop_event \/ streamer = <<>>
    /\ prov_done' = TRUE
    /\ UNCHANGED <<provOthers, provider, use_thinking, streamer, is_thinking,
                   has_started_thinking, stop_event, prov_events>>

\* GeminiProvider.generate: one pass of `for chunk in response`.
GeminiChunk ==
    /\ provider = "gemini"
    /\ ~prov_done
    /\ ~stop_event
    /\ streamer # <<>>
    /\ prov_events' = Append(prov_events, "content")
    /\ streamer' = Tail(streamer)
    /\ UNCHANGED <<provOthers, provider, use_thinking, is_thinking,
                   has_started_thinking, stop_event, prov_done>>

\* GeminiProvider.generate: the response is exhausted, or stop_event is set.
GeminiReturn ==
    /\ provider = "gemini"
    /\ ~prov_done
    /\ stop_event \/ streamer = <<>>
    /\ prov_done' = TRUE
    /\ UNCHANGED <<provOthers, provider, use_thinking, streamer, is_thinking,
                   has_started_thinking, stop_event, prov_events>>

\* GeminiProvider.generate: the API key is missing (26-28), or the request
\* raises (93-94): one error event, and the generator returns.
GeminiError ==
    /\ provider = "gemini"
    /\ ~prov_done
    /\ prov_events' = Append(prov_events, "error")
    /\ prov_done' = TRUE
    /\ UNCHANGED <<provOthers, provider, use_thinking, streamer, is_thinking,
                   has_started_thinking, stop_event>>

\* Another thread sets stop_event while the generation runs.
SetStopEvent ==
    /\ ~prov_done
    /\ ~stop_event
    /\ stop_event' = TRUE
    /\ UNCHANGED <<provOthers, provider, use_thinking, streamer, is_thinking,
                   has_started_thinking, prov_events, prov_done>>

(***************************************************************************)
(* modules/utils.py: extract_json                                          *)
(*                                                                         *)
(* A text is a run of lexical pieces.  "{" and "}" are braces, " " is one  *)
(* blank, "p" is a member such as "a":1, "q" is a member whose string      *)
(* value holds an opening brace ("a":"{"), "k" is a key with its colon     *)
(* ("k":) that an object follows, "n" is the scalar true, "x" is text that *)
(* is no JSON (the stop token <|im_end|>), "F" is the opening fence        *)
(* ```json and "f" the closing fence ```.                                  *)
(***************************************************************************)
MaxPieces == 3
Pieces ==
    { <<>>, <<" ">>, <<"x">>, <<"n">>, <<"}">>, <<"{">>, <<"F">>, <<"f">>,
      <<"{", "}">>, <<"{", "p", "}">>, <<"{", "q", "}">>,
      <<"{", "k", "{", "p", "}", "}">>, <<"{", " ", "{", "p", "}", " ", "}">> }
RECURSIVE TextsOf(_)
TextsOf(n) ==
    IF n = 0 THEN {<<>>}
    ELSE {a \o b : a \in TextsOf(n - 1), b \in Pieces}

\* The text without its blanks (JSON ignores blanks between lexemes).
Strip(text) == SelectSeq(text, LAMBDA piece : piece # " ")
\* The grammar json.loads accepts, on stripped text: an object is a pair of
\* braces around nothing, one member, or a key followed by an object.
RECURSIVE IsObject(_)
IsObject(text) ==
    /\ Len(text) >= 2
    /\ text[1] = "{"
    /\ text[Len(text)] = "}"
    /\ LET inner == SubSeq(text, 2, Len(text) - 1) IN
        \/ inner = <<>>
        \/ inner = <<"p">>
        \/ inner = <<"q">>
        \/ /\ Len(inner) >= 1
           /\ inner[1] = "k"
           /\ IsObject(Tail(inner))
\* json.loads(text): <<the value>>, or <<>> when it raises JSONDecodeError.
json_loads(text) ==
    IF Strip(text) = <<"n">> \/ IsObject(Strip(text)) THEN <<Strip(text)>> ELSE <<>>

\* The pieces that hold the character "{" and the character "}".
HasOpenBrace(piece) == piece \in {"{", "q"}
HasCloseBrace(piece) == piece = "}"
\* text[from:to+1] by characters, `from` being the brace of piece `from`: a
\* slice that begins inside a string is no JSON.
SliceFromBrace(text, from, to) ==
    IF text[from] = "q" THEN <<"x">> \o SubSeq(text, from + 1, to)
    ELSE SubSeq(text, from, to)

\* re.search(r'```json\s*([\s\S]*?)\s*```', text): <<group(1)>>, or <<>>.
\* The closing ``` is the nearest one after the opening fence, which may be
\* the start of another ```json.
IsFence(piece) == piece \in {"F", "f"}
json_match(text) ==
    LET opens == {i \in 1..Len(text) : text[i] = "F"} IN
    IF opens = {} THEN <<>>
    ELSE LET open   == CHOOSE i \in opens : \A j \in opens : i <= j
             closes == {i \in (open + 1)..Len(text) : IsFence(text[i])}
         IN  IF closes = {} THEN <<>>
             ELSE LET close == CHOOSE i \in closes : \A j \in closes : i <= j
                  IN  <<SubSeq(text, open + 1, close - 1)>>

\* re.search(r'(\{[\s\S]*\})', text): from the first "{" to the last "}".
brace_match(text) ==
    LET opens == {i \in 1..Len(text) : HasOpenBrace(text[i])} IN
    IF opens = {} THEN <<>>
    ELSE LET open   == CHOOSE i \in opens : \A j \in opens : i <= j
             closes == {i \in (open + 1)..Len(text) : HasCloseBrace(text[i])}
         IN  IF closes = {} THEN <<>>
             ELSE LET close == CHOOSE i \in closes : \A j \in closes : j <= i
                  IN  <<SliceFromBrace(text, open, close)>>

\* `pattern in text`, and text.replace(pattern, by), left to right.
RECURSIVE Contains(_, _)
Contains(text, pattern) ==
    /\ Len(text) >= Len(pattern)
    /\ \/ SubSeq(text, 1, Len(pattern)) = pattern
       \/ Contains(Tail(text), pattern)
RECURSIVE Replace(_, _, _)
Replace(text, pattern, by) ==
    IF Len(text) < Len(pattern) THEN text
    ELSE IF SubSeq(text, 1, Len(pattern)) = pattern
         THEN by \o Replace(SubSeq(text, Len(pattern) + 1, Len(text)), pattern, by)
         ELSE <<Head(text)>> \o Replace(Tail(text), pattern, by)
\* The double-brace repair of lines 32-37.
repaired(text) ==
    Replace(Replace(text, <<"{", " ", "{">>, <<"{">>), <<"}", " ", "}">>, <<"}">>)

\* The loop of lines 41-58 from character i on, with len(stack) and start_idx.
RECURSIVE BalanceFrom(_, _, _, _)
BalanceFrom(text, i, depth, start_idx) ==
    IF i > Len(text) THEN <<>>
    ELSE IF HasOpenBrace(text[i])
         THEN BalanceFrom(text, i + 1, depth + 1, IF depth = 0 THEN i ELSE start_idx)
    ELSE IF HasCloseBrace(text[i]) /\ depth > 0
         THEN IF depth = 1
              THEN LET candidate == SliceFromBrace(text, start_idx, i) IN
                   IF json_loads(candidate) # <<>> THEN json_loads(candidate)
                   ELSE BalanceFrom(text, i + 1, 0, start_idx)
              ELSE BalanceFrom(text, i + 1, depth - 1, start_idx)
    ELSE BalanceFrom(text, i + 1, depth, start_idx)

\* extract_json(text) of modules/utils.py on a text given by its pieces.
ExtractJson(text) ==
    IF json_match(text) # <<>> /\ json_loads(json_match(text)[1]) # <<>>
    THEN json_loads(json_match(text)[1])
    ELSE IF brace_match(text) # <<>> /\ json_loads(brace_match(text)[1]) # <<>>
    THEN json_loads(brace_match(text)[1])
    ELSE IF json_loads(text) # <<>>
    THEN json_loads(text)
    ELSE IF /\ Contains(text, <<"{", " ", "{">>)
            /\ Contains(text, <<"}", " ", "}">>)
            /\ json_loads(repaired(text)) # <<>>
    THEN json_loads(repaired(text))
    ELSE BalanceFrom(text, 1, 0, 0)

\* A caller runs extract_json on the text.
ExtractJsonCall ==
    /\ ~json_called
    /\ json_result' = ExtractJson(json_text)
    /\ json_called' = TRUE
    /\ UNCHANGED <<jsonOthers, json_text>>

(***************************************************************************)
(* modules/ai_agent/core.py and modules/tasks/scheduler.py: the threads    *)
(* that run plugin child processes                                         *)
(***************************************************************************)
max_workers  == 4
MaxSubmitted == 5
PoolTurns    == {"c1", "c2"}

\* ask_stream submits a model-requested action to thread_pool (core.py 498).
PoolSubmit ==
    /\ work_queue < MaxSubmitted
    /\ work_queue' = work_queue + 1
    /\ UNCHANGED <<poolOthers, workers_busy, turn_children, loop_child>>

\* ThreadPoolExecutor: a worker takes a work item while fewer than max_workers
\* are busy, and calls ActionExecutor.execute, which starts the child.
WorkerTakes ==
    /\ work_queue > 0
    /\ workers_busy < max_workers
    /\ work_queue' = work_queue - 1
    /\ workers_busy' = workers_busy + 1
    /\ UNCHANGED <<poolOthers, turn_children, loop_child>>

\* The child of a pool worker ends and execute returns.
WorkerDone ==
    /\ workers_busy > 0
    /\ workers_busy' = workers_busy - 1
    /\ UNCHANGED <<poolOthers, work_queue, turn_children, loop_child>>

\* ask_stream of a chat runs a pre_request action: execute is called in the
\* thread that drives the generator (core.py 266-272).
PreRequestRuns(chat) ==
    /\ chat \notin turn_children
    /\ turn_children' = turn_children \cup {chat}
    /\ UNCHANGED <<poolOthers, work_queue, workers_busy, loop_child>>

\* The pre_request child of the chat's turn ends.
PreRequestDone(chat) ==
    /\ chat \in turn_children
    /\ turn_children' = turn_children \ {chat}
    /\ UNCHANGED <<poolOthers, work_queue, workers_busy, loop_child>>

\* _scheduler_loop runs a due task: run_task calls executor.execute in the
\* scheduler thread (scheduler.py 166-177, 121-128).
ScheduledRun ==
    /\ ~loop_child
    /\ loop_child' = TRUE
    /\ UNCHANGED <<poolOthers, work_queue, workers_busy, turn_children>>

\* The child of the scheduled task ends.
ScheduledDone ==
    /\ loop_child
    /\ loop_child' = FALSE
    /\ UNCHANGED <<poolOthers, work_queue, workers_busy, turn_children>>

(***************************************************************************)
(* modules/tasks/scheduler.py: start, stop and the steps of                *)
(* _scheduler_loop, with tasks that are active and due at every tick       *)
(***************************************************************************)
MaxLoopThreads == 2
LoopThreads    == 1..MaxLoopThreads
DueTasks       == <<"t1", "t2">>
DueTaskIds     == {DueTasks[i] : i \in 1..Len(DueTasks)}

\* A loop thread: pc is "none" before it is created, "check" at `while
\* self.running`, "for" inside the for loop, "run" inside executor.execute of
\* run_task, "sleep" in time.sleep(60), "ended" after the loop.  todo is what
\* is left of list(self.tasks.items()); due and ran are history: the tasks of
\* the tick's list, and those of them the tick has executed.
NoThread == [pc |-> "none", todo |-> <<>>, due |-> {}, ran |-> {}]
\* list(self.tasks.items()): the ids in the order of the file.
ItemsOf(ids) == SelectSeq(DueTasks, LAMBDA id : id \in ids)

\* TaskScheduler.start() on a stopped scheduler: sets self.running and starts
\* a new loop thread.
SchedulerStart ==
    /\ ~self_running
    /\ threads_made < MaxLoopThreads
    /\ self_running' = TRUE
    /\ threads_made' = threads_made + 1
    /\ loop_thread' = [loop_thread EXCEPT ![threads_made + 1] =
                          [NoThread EXCEPT !.pc = "check"]]
    /\ UNCHANGED <<loopOthers, live_tasks>>

\* TaskScheduler.start() on a running scheduler returns at once.
SchedulerStartAgain ==
    /\ self_running
    /\ UNCHANGED vars

\* TaskScheduler.stop(): clears self.running and joins self._thread for at
\* most 5 seconds.  A thread at the loop test sees the flag and ends within
\* the join; a thread asleep ends within it when its sleep of 60 seconds is
\* about to finish (ends = TRUE) and otherwise outlasts it, as does a thread
\* inside a tick.
JoinEnds(ends) ==
    IF threads_made = 0 THEN ~ends
    ELSE CASE loop_thread[threads_made].pc = "check" -> ends
           [] loop_thread[threads_made].pc = "sleep" -> TRUE
           [] OTHER -> ~ends
SchedulerStop(ends) ==
    /\ JoinEnds(ends)
    /\ self_running' = FALSE
    /\ loop_thread' = IF ends THEN [loop_thread EXCEPT ![threads_made].pc = "ended"]
                      ELSE loop_thread
    /\ UNCHANGED <<loopOthers, threads_made, live_tasks>>

\* _scheduler_loop: the test of `while self.running`, and on entry the list
\* the for loop will walk.
LoopCheck(t) ==
    /\ loop_thread[t].pc = "check"
    /\ loop_thread' = [loop_thread EXCEPT ![t] =
          IF self_running
          THEN [pc |-> "for", todo |-> ItemsOf(live_tasks), due |-> live_tasks, ran |-> {}]
          ELSE [@ EXCEPT !.pc = "ended"]]
    /\ UNCHANGED <<loopOthers, self_running, threads_made, live_tasks>>

\* _scheduler_loop: the next task of the for loop.  run_task returns an
\* error for a task that is gone (118-120); otherwise it starts the action.
\* After the last task the thread sleeps.
LoopNextTask(t) ==
    /\ loop_thread[t].pc = "for"
    /\ loop_thread' = [loop_thread EXCEPT ![t] =
          IF @.todo = <<>> THEN [@ EXCEPT !.pc = "sleep"]
          ELSE IF Head(@.todo) \notin live_tasks THEN [@ EXCEPT !.todo = Tail(@)]
          ELSE [@ EXCEPT !.pc = "run", !.ran = @ \cup {Head(loop_thread[t].todo)}]]
    /\ UNCHANGED <<loopOthers, self_running, threads_made, live_tasks>>

\* run_task after executor.execute returned: self.tasks[task_id]["last_run"]
\* raises KeyError when the task was deleted meanwhile, and _save_tasks may
\* raise (saves = FALSE).  An exception leaves the for loop for the except
\* clause of line 179, and the thread sleeps.
RunTaskReturns(t, saves) ==
    /\ loop_thread[t].pc = "run"
    /\ loop_thread' = [loop_thread EXCEPT ![t] =
          IF Head(@.todo) \in live_tasks /\ saves
          THEN [@ EXCEPT !.pc = "for", !.todo = Tail(@)]
          ELSE [@ EXCEPT !.pc = "sleep", !.todo = <<>>]]
    /\ UNCHANGED <<loopOthers, self_running, threads_made, live_tasks>>

\* time.sleep(60) returns.
LoopWakes(t) ==
    /\ loop_thread[t].pc = "sleep"
    /\ loop_thread' = [loop_thread EXCEPT ![t].pc = "check"]
    /\ UNCHANGED <<loopOthers, self_running, threads_made, live_tasks>>

\* delete_task(task_id) from a request thread.
TaskDeleted(id) ==
    /\ id \in live_tasks
    /\ live_tasks' = live_tasks \ {id}
    /\ UNCHANGED <<loopOthers, self_running, threads_made, loop_thread>>

(***************************************************************************)
(* modules/actions/registry.py and modules/ai_agent/core.py: the registry  *)
(* singleton over the turns of several users                               *)
(***************************************************************************)
ShareUsers == {"u1", "u2"}
\* The plugin folders there can be: one under data/plugins and one under
\* bot_data/users/<user>/plugins of each user, with the action each manifest
\* declares and its trigger.
SystemFolder == <<"system", "sys">>
FolderOf(user) == <<user, "plug_" \o user>>
Folders == {SystemFolder} \cup {FolderOf(user) : user \in ShareUsers}
ActionIn(folder) == "act_" \o folder[2]
TriggerOf(folder) == IF folder = FolderOf("u2") THEN "manual" ELSE "pre_request"

\* _scan_dir over the folders of one directory: every manifest's action is
\* stored under its name; nothing is taken out.
ScanInto(acts, dirs) ==
    [name \in DOMAIN acts \cup {ActionIn(d) : d \in dirs} |->
        IF \E d \in dirs : ActionIn(d) = name
        THEN CHOOSE d \in dirs : ActionIn(d) = name
        ELSE acts[name]]
\* scan_plugins(user_id): data/plugins, then the user's directory.
ScanFor(acts, dirs, user) ==
    ScanInto(ScanInto(acts, {d \in dirs : d[1] = "system"}),
             {d \in dirs : user # None /\ d[1] = user})

\* ask_stream of a chat owned by the user, up to the system prompt: the
\* scan, the pre_request actions executed and the actions listed (258-296).
\* get_action resolves the same map for the rest of the turn (811).
AskStreamScan(user) ==
    /\ agent_actions' = ScanFor(agent_actions, plugin_dirs, user)
    /\ turn_user' = user
    /\ turn_disk' = plugin_dirs
    /\ turn_pre_run' = {name \in DOMAIN agent_actions' :
                            TriggerOf(agent_actions'[name]) = "pre_request"}
    /\ turn_listed' = DOMAIN agent_actions'
    /\ UNCHANGED <<shareOthers, plugin_dirs>>

\* A route installs a plugin with a registry of its own (extensions.py
\* 308-309): the folder appears on disk.
FolderInstalled(folder) ==
    /\ folder \notin plugin_dirs
    /\ plugin_dirs' = plugin_dirs \cup {folder}
    /\ UNCHANGED <<shareOthers, agent_actions, turn_user, turn_disk, turn_pre_run,
                   turn_listed>>

\* A route deletes a plugin with a registry of its own (extensions.py
\* 240-249): the folder leaves the disk.
FolderRemoved(folder) ==
    /\ folder \in plugin_dirs
    /\ plugin_dirs' = plugin_dirs \ {folder}
    /\ UNCHANGED <<shareOthers, agent_actions, turn_user, turn_disk, turn_pre_run,
                   turn_listed>>

(***************************************************************************)
(* modules/ai_agent/core.py: active_action_ids of one chat while ask_stream *)
(* dispatches one batch and waits for it                                   *)
(***************************************************************************)
MaxIds == 3
\* uuid4: the execution ids are numbered in the order they are made.
MadeIds == DOMAIN executions
RunningIds == {id \in MadeIds : executions[id] = "running"}

\* `for act in found_actions`: one action is dispatched.  A registered
\* action gets an execution id, which is written to active_action_ids, and is
\* submitted to the pool; an unknown one is skipped (806-824, 484-500).
DispatchAction(found) ==
    /\ ids_pc = "dispatch"
    /\ batch_left > 0
    /\ batch_left' = batch_left - 1
    /\ IF found
       THEN /\ executions' = Append(executions, "running")
            /\ chat_active_id' = <<Len(executions) + 1>>
       ELSE UNCHANGED <<executions, chat_active_id>>
    /\ UNCHANGED <<idsOthers, ids_pc, cancel_target>>

\* The for loop is over: the wait loop begins.
DispatchOver ==
    /\ ids_pc = "dispatch"
    /\ batch_left = 0
    /\ ids_pc' = "wait"
    /\ UNCHANGED <<idsOthers, batch_left, executions, chat_active_id, cancel_target>>

\* A pool worker returns from ActionExecutor.execute: the future is done.
ExecutionEnds(id) ==
    /\ id \in RunningIds
    /\ executions' = [executions EXCEPT ![id] = "done"]
    /\ UNCHANGED <<idsOthers, ids_pc, batch_left, chat_active_id, cancel_target>>

\* wait(pending, ...) returns the futures that are done; each is removed from
\* pending and the chat's entry of active_action_ids, if any, is deleted
\* (859-870, 549-559).
CollectFutures ==
    /\ ids_pc = "wait"
    /\ \E id \in MadeIds : executions[id] = "done"
    /\ executions' = [id \in MadeIds |->
                          IF executions[id] = "done" THEN "collected" ELSE executions[id]]
    /\ chat_active_id' = <<>>
    /\ UNCHANGED <<idsOthers, ids_pc, batch_left, cancel_target>>

\* `while pending`: nothing is pending any more.
WaitOver ==
    /\ ids_pc = "wait"
    /\ \A id \in MadeIds : executions[id] = "collected"
    /\ ids_pc' = "end"
    /\ UNCHANGED <<idsOthers, batch_left, executions, chat_active_id, cancel_target>>

\* cancel_current_action(chat_id) from a request thread: the id of the
\* chat's entry is handed to cancel_action, or False is returned (118-124).
CancelCurrent ==
    /\ cancel_target' = IF chat_active_id = <<>> THEN "False"
                        ELSE executions[chat_active_id[1]]
    /\ UNCHANGED <<idsOthers, ids_pc, batch_left, executions, chat_active_id>>

(***************************************************************************)
(* modules/ai_agent/core.py: the generation block of ask_stream's loop     *)
(* (397-430), consuming the provider's generator                           *)
(***************************************************************************)
\* What the body of the for loop at 669-696 yields for one event: content is
\* yielded twice.  That loop follows the loop of line 354, which never ends.
ForwardSecondLoop(event) ==
    IF event \in {"content", "json_content"} THEN <<event, event>>
    ELSE IF event \in {"thinking", "thinking_finished"} THEN <<event>>
    ELSE <<>>
\* What the body of `for chunk in generator` yields for one event of the
\* provider: the providers yield dicts, and a dict is yielded as it is.
Forward(event) == <<event>>

\* ask_stream takes the provider's next event and yields it to the consumer.
ForwardEvent ==
    /\ fwd_pos < Len(prov_events)
    /\ forwarded' = forwarded \o Forward(prov_events[fwd_pos + 1])
    /\ fwd_pos' = fwd_pos + 1
    /\ UNCHANGED fwdOthers

\* The generator raises: ask_stream yields an error event and returns
\* (427-430).  Every event yielded before it has been taken.
GenerationRaises ==
    /\ ~prov_done
    /\ fwd_pos = Len(prov_events)
    /\ prov_done' = TRUE
    /\ forwarded' = Append(forwarded, "error")
    /\ UNCHANGED <<earlyVars, jsonVars, poolVars, loopVars, shareVars, idsVars, workerVars,
                   provider, use_thinking, streamer, is_thinking, has_started_thinking,
                   stop_event, prov_events, fwd_pos>>

(***************************************************************************)
(* modules/ai_agent/scheduler_worker.py: run_worker_loop, the requests on  *)
(* agent.request_queue and the shutdown                                    *)
(***************************************************************************)
worker_max_loops == 5
WorkerChats == {"c1", "c2"}

\* What a generation of the worker can produce: a JSON object that requests
\* actions (with a message), plain text, a JSON object with a message, a JSON
\* object without one; or the generator raises.
ActionsContent == "{message: working, actions: [...]}"
FinalContents  == {"plain text", "{message: hello}", "{title: t}"}
\* extract_json(content).get("message"): <<>> when the content is no JSON
\* object or has no message.
MessageIn(content) ==
    CASE content = ActionsContent     -> <<"working">>
      [] content = "{message: hello}" -> <<"hello">>
      [] OTHER                        -> <<>>

\* A request: the chat, return_json, and how its generations go: `rounds`
\* generations request actions that are permitted and executed, and the one
\* after them ends as `last` says: a content without actions, a request of an
\* action that is not permitted ("unpermitted"), or an exception ("raise").
\* After worker_max_loops rounds there is no further generation.
RoundCounts  == {0, 1, worker_max_loops}
LastOutcomes == FinalContents \cup {"unpermitted", "raise"}
Requests ==
    {r \in [chat_id : WorkerChats, return_json : BOOLEAN, rounds : RoundCounts,
            last : LastOutcomes \cup {None}] :
        (r.last = None) <=> (r.rounds >= worker_max_loops)}

\* An event the worker broadcasts; None is the sentinel.
WorkerEvent(status, message, raw) == [status |-> status, message |-> message, raw |-> raw]
Sentinel == WorkerEvent(None, None, None)

\* The FINAL SAVE of lines 279-298 on final_content: the json_content event.
FinalSave(final_content) ==
    WorkerEvent("json_content",
                IF MessageIn(final_content) # <<>> THEN MessageIn(final_content)[1]
                ELSE final_content,
                final_content)
\* The action loop of lines 138-277 and what follows it, for one request:
\* the events broadcast after the generations, and whether the function
\* returned from inside the loop (line 230).  final_content is assigned only
\* on the pass without actions (275): at the loop limit it is still "".
WorkerRun(request) ==
    IF request.rounds >= worker_max_loops
    THEN [events |-> IF request.return_json THEN <<FinalSave("")>> ELSE <<>>,
          returned |-> FALSE]
    ELSE CASE request.last = "raise" ->
                [events |-> <<WorkerEvent("error", None, None)>>, returned |-> FALSE]
           [] request.last = "unpermitted" ->
                [events |-> <<WorkerEvent("permission_required", None, None)>>,
                 returned |-> TRUE]
           [] OTHER ->
                [events |-> IF request.return_json THEN <<FinalSave(request.last)>> ELSE <<>>,
                 returned |-> FALSE]

\* A caller registers a listener in active_tasks and puts a request on the
\* queue (tests/test_loop.py 37-47).
PutRequest(request) ==
    /\ request.chat_id \notin asked
    /\ request_queue' = Append(request_queue, request)
    /\ active_tasks' = active_tasks \cup {request.chat_id}
    /\ asked' = asked \cup {request.chat_id}
    /\ UNCHANGED <<workerOthers, worker_alive, agent_stop_event, served, broadcasts>>

\* run_worker_loop: one pass of the while loop that gets an item (29-308).
\* The finally clause broadcasts None, removes the chat from active_tasks and
\* marks the item done; after a permission pause the `return` of line 230
\* leaves run_worker_loop, so the thread ends.
ProcessRequest ==
    /\ worker_alive
    /\ ~agent_stop_event
    /\ request_queue # <<>>
    /\ LET request == Head(request_queue)
           run     == WorkerRun(request)
       IN  /\ served' = [served EXCEPT ![request.chat_id] = <<request>>]
           /\ broadcasts' = [broadcasts EXCEPT ![request.chat_id] =
                                run.events \o <<Sentinel>>]
           /\ active_tasks' = active_tasks \ {request.chat_id}
           /\ worker_alive' = ~run.returned
    /\ request_queue' = Tail(request_queue)
    /\ UNCHANGED <<workerOthers, agent_stop_event, asked>>

\* AIAgent.shutdown(): sets stop_event (and puts None on the queue).
Shutdown ==
    /\ ~agent_stop_event
    /\ agent_stop_event' = TRUE
    /\ UNCHANGED <<workerOthers, request_queue, worker_alive, active_tasks, asked, served,
                   broadcasts>>

\* run_worker_loop: the loop test finds stop_event set and the thread ends.
WorkerExits ==
    /\ worker_alive
    /\ agent_stop_event
    /\ worker_alive' = FALSE
    /\ UNCHANGED <<workerOthers, request_queue, agent_stop_event, active_tasks, asked,
                   served, broadcasts>>

(***************************************************************************)
(* Specifications                                                          *)
(***************************************************************************)
PermInit  == permissions = <<>> /\ today = 1
CacheInit == cache = <<>> /\ now = 0 /\ lastSet = <<>>

\* No turn is running.
TurnIdle ==
    /\ pc = "idle"
    /\ resume_action = FALSE
    /\ current_loop = 0
    /\ loop_history = <<>>
    /\ json_data = JsonNull
    /\ found_resume_actions = <<>>
    /\ system_prompt = SysPrompt("user_chat", {})
    /\ di = 1
    /\ pending = <<>>
    /\ observations = <<>>
    /\ pre_ttl = 0
    /\ pre_executed = {}
    /\ stream = <<>>
    /\ lastGen = NoGen
    /\ nGenerate = 0
    /\ nBatches = 0
    /\ executed = [a \in ActionNames |-> 0]
    /\ perm_checked = <<>>
    /\ stop = FALSE
    /\ progress_q = <<>>

\* No thread is in a method of the cache.
LockIdle ==
    /\ lock = None
    /\ thr = [t \in Threads |-> IdleThread]
    /\ held = <<>>

\* execute has not been called.
NoCall == [role |-> None, user_id |-> None, type |-> None]
HomeIdle ==
    /\ genesis_home = <<>>
    /\ fs_dirs = {}
    /\ child_env = <<>>
    /\ home_call = NoCall

\* A registry just made, over empty plugin directories.
PlugIdle ==
    /\ disk = <<>>
    /\ plugins = <<>>
    /\ actions = <<>>
    /\ plug_op = [kind |-> None, arg |-> None, scope |-> None, result |-> None,
                  order |-> <<>>]

\* _should_run has not been called.
CronIdle ==
    /\ cron_schedule = ""
    /\ cron_now = [hour |-> 0, minute |-> 0]
    /\ cron_result = None

\* The scheduler is constructed with no task file and started, as app.py
\* does when it is imported: the loop thread is about to make its first pass.
SchedIdle ==
    /\ tasks = <<>>
    /\ running = TRUE
    /\ clock = 0
    /\ wake = 0
    /\ created = 0
    /\ sched_op = NoSchedOp
    /\ fire_log = {}
    /\ changed_at = <<>>

ProvIdle ==
    /\ provider = None
    /\ use_thinking = FALSE
    /\ streamer = <<>>
    /\ is_thinking = FALSE
    /\ has_started_thinking = FALSE
    /\ stop_event = FALSE
    /\ prov_events = <<>>
    /\ prov_done = TRUE

JsonIdle ==
    /\ json_text = <<>>
    /\ json_called = TRUE
    /\ json_result = <<>>

PoolIdle ==
    /\ work_queue = 0
    /\ workers_busy = 0
    /\ turn_children = {}
    /\ loop_child = FALSE

LoopIdle ==
    /\ self_running = FALSE
    /\ threads_made = 0
    /\ loop_thread = [t \in LoopThreads |-> NoThread]
    /\ live_tasks = {}

ShareIdle ==
    /\ plugin_dirs = {}
    /\ agent_actions = <<>>
    /\ turn_user = None
    /\ turn_disk = {}
    /\ turn_pre_run = {}
    /\ turn_listed = {}

IdsIdle ==
    /\ ids_pc = "end"
    /\ batch_left = 0
    /\ executions = <<>>
    /\ chat_active_id = <<>>
    /\ cancel_target = None

FwdIdle ==
    /\ forwarded = <<>>
    /\ fwd_pos = 0

WorkerIdle ==
    /\ request_queue = <<>>
    /\ worker_alive = FALSE
    /\ agent_stop_event = FALSE
    /\ active_tasks = {}
    /\ asked = {}
    /\ served = <<>>
    /\ broadcasts = <<>>

\* Nothing of the later sections has begun.
LateIdle == ProvIdle /\ JsonIdle /\ PoolIdle /\ LoopIdle /\ ShareIdle /\ IdsIdle /\ FwdIdle /\ WorkerIdle

MoreIdle == HomeIdle /\ PlugIdle /\ CronIdle /\ SchedIdle /\ LateIdle

\* No child process, and no cancellation asked for.
ExecIdle ==
    /\ child_out = <<>>
    /\ stdout_lines = <<>>
    /\ progress_callback = FALSE
    /\ callback_log = <<>>
    /\ exit_code = <<>>
    /\ exec_result = NoResult
    /\ active_action_ids = None
    /\ cancel_result = None

\* Everything but one of the later sections is at rest.
EarlyIdle ==
    /\ PermInit /\ CacheInit /\ TurnIdle /\ LockIdle /\ ExecIdle
    /\ HomeIdle /\ PlugIdle /\ CronIdle /\ SchedIdle
ProvAlone == EarlyIdle /\ JsonIdle /\ PoolIdle /\ LoopIdle /\ ShareIdle /\ IdsIdle /\ FwdIdle /\ WorkerIdle
JsonAlone == EarlyIdle /\ ProvIdle /\ PoolIdle /\ LoopIdle /\ ShareIdle /\ IdsIdle /\ FwdIdle /\ WorkerIdle
PoolAlone == EarlyIdle /\ ProvIdle /\ JsonIdle /\ LoopIdle /\ ShareIdle /\ IdsIdle /\ FwdIdle /\ WorkerIdle
LoopAlone == EarlyIdle /\ ProvIdle /\ JsonIdle /\ PoolIdle /\ ShareIdle /\ IdsIdle /\ FwdIdle /\ WorkerIdle
ShareAlone == EarlyIdle /\ ProvIdle /\ JsonIdle /\ PoolIdle /\ LoopIdle /\ IdsIdle /\ FwdIdle /\ WorkerIdle
IdsAlone == EarlyIdle /\ ProvIdle /\ JsonIdle /\ PoolIdle /\ LoopIdle /\ ShareIdle /\ FwdIdle /\ WorkerIdle
FwdAlone == EarlyIdle /\ ProvIdle /\ JsonIdle /\ PoolIdle /\ LoopIdle /\ ShareIdle /\ IdsIdle /\ WorkerIdle
WorkerAlone == EarlyIdle /\ ProvIdle /\ JsonIdle /\ PoolIdle /\ LoopIdle /\ ShareIdle /\ IdsIdle /\ FwdIdle

\* The permission table at the start of a turn: empty, or what grants of the
\* owner left in it.
InitialStores ==
    {<<>>,
     <<GrantRow(UserId, "say_hello", SCOPE_SESSION, ChatId)>>}

\* ask_stream is called, fresh or with resume_action=True.
Init ==
    /\ today = 1
    /\ permissions \in InitialStores
    /\ CacheInit
    /\ pc = "enter"
    /\ resume_action \in BOOLEAN
    /\ current_loop = 0
    /\ loop_history \in PriorHistories
    /\ json_data = JsonNull
    /\ found_resume_actions = <<>>
    /\ system_prompt = SysPrompt("user_chat", {})
    /\ di = 1
    /\ pending = <<>>
    /\ observations = <<>>
    /\ pre_ttl \in 0..MaxTtl
    /\ pre_executed = {}
    /\ stream = <<>>
    /\ lastGen = NoGen
    /\ nGenerate = 0
    /\ nBatches = 0
    /\ executed = [a \in ActionNames |-> 0]
    /\ perm_checked = <<>>
    /\ stop = FALSE
    /\ progress_q = <<>>
    /\ LockIdle
    /\ ExecIdle
    /\ MoreIdle

\* The generator, driven by its consumer.
TurnStep ==
    \/ Enter
    \/ PreRequest
    \/ ResumeScan
    \/ LoopHead
    \/ Generate
    \/ Analyse
    \/ Dispatch
    \/ DrainProgress
    \/ StartWait
    \/ CollectOutput
    \/ WaitEnd
    \/ Rebuild

\* The pool threads running the submitted actions.
PoolStep == FutureProgress \/ FutureDone

Next == TurnStep \/ PoolStep

Spec == Init /\ [][Next]_vars

\* The consumer keeps iterating the generator and the pool threads run.
FairSpec == Spec /\ WF_vars(TurnStep) /\ WF_vars(FutureDone)

\* A turn whose caller may set the stop_event.
StopNext == Next \/ SetStop
StopSpec == Init /\ [][StopNext]_vars

PermSpecInit == PermInit /\ CacheInit /\ TurnIdle /\ LockIdle /\ ExecIdle /\ MoreIdle
PermNext == GrantPermission \/ AdvanceDay
PermSpec == PermSpecInit /\ [][PermNext]_vars

CacheSpecInit == PermInit /\ CacheInit /\ TurnIdle /\ LockIdle /\ ExecIdle /\ MoreIdle
CacheNext ==
    \/ CacheSet
    \/ CacheInvalidate
    \/ CacheClearUser
    \/ Tick
CacheSpec == CacheSpecInit /\ [][CacheNext]_vars

\* Two threads, each calling one method of the cache, at any time of the clock.
ConcInit ==
    /\ PermInit /\ TurnIdle /\ ExecIdle /\ MoreIdle
    /\ cache \in InitialMaps
    /\ now \in 0..MaxTime
    /\ lastSet = <<>>
    /\ lock = None
    /\ thr = [t \in Threads |-> IdleThread]
    /\ held = cache
ConcNext ==
    \/ CacheCall
    \/ CacheAcquire
    \/ CacheBody
ConcSpec == ConcInit /\ [][ConcNext]_vars

\* The dispatch and supervisor loop of one batch: a resumed call whose latest
\* assistant item requests the batch has been scanned and analysed, and
\* control is at line 482.
SuperviseInit ==
    /\ today = 1
    /\ permissions \in InitialStores
    /\ CacheInit /\ LockIdle /\ ExecIdle /\ MoreIdle
    /\ \E b \in Batches :
          /\ json_data = ActionsMsg(b)
          /\ found_resume_actions = ResumeScanFound(ActionsMsg(b)) \o Normalised(ActionsMsg(b))
          /\ loop_history = <<Item("assistant", ActionsMsg(b)), Item("user", TextMsg),
                              Item("assistant", EmptyMsg)>>
    /\ pc = "dispatch"
    /\ di = 1
    /\ pending = <<>>
    /\ stream = <<Ev("content", "system", None)>>
    /\ resume_action = FALSE
    /\ current_loop = 1
    /\ system_prompt \in {SysPrompt("user_chat", A) : A \in SUBSET PreRequestActions}
    /\ observations = <<>>
    /\ pre_ttl \in 0..MaxTtl
    /\ pre_executed = PreRequestActions
    /\ lastGen = NoGen
    /\ nGenerate = 0
    /\ nBatches = 1
    /\ executed = [a \in ActionNames |-> 0]
    /\ perm_checked = <<>>
    /\ stop = FALSE
    /\ progress_q = <<>>
SuperviseNext ==
    \/ Dispatch
    \/ DrainProgress
    \/ StartWait
    \/ CollectOutput
    \/ WaitEnd
    \/ Rebuild
    \/ FutureProgress
    \/ FutureDone
SuperviseSpec == SuperviseInit /\ [][SuperviseNext]_vars

\* One execute call running a child, dispatched by ask_stream (an execution
\* id is registered for the chat) or by the pre-request phase (none is).
ExecInit ==
    /\ PermInit /\ CacheInit /\ TurnIdle /\ LockIdle /\ MoreIdle
    /\ child_out \in Outputs
    /\ stdout_lines = <<>>
    /\ progress_callback \in BOOLEAN
    /\ callback_log = <<>>
    /\ exit_code = <<>>
    /\ exec_result = NoResult
    /\ active_action_ids \in {None, "e1"}
    /\ cancel_result = None
ExecNext ==
    \/ ReadLine
    \/ ChildExit
    \/ CancelCurrentAction
ExecSpec == ExecInit /\ [][ExecNext]_vars

\* Calls of ActionExecutor.execute, one after the other.
HomeInit ==
    /\ PermInit /\ CacheInit /\ TurnIdle /\ LockIdle /\ ExecIdle
    /\ MoreIdle
HomeNext ==
    \/ Execute
    \/ RemoveDir
HomeSpec == HomeInit /\ [][HomeNext]_vars

\* A registry over the plugin directories: the system directory ships with
\* no plugin or with p1, and the user has no plugin or p2.
PlugInit ==
    /\ PermInit /\ CacheInit /\ TurnIdle /\ LockIdle /\ ExecIdle /\ HomeIdle /\ CronIdle /\ SchedIdle /\ LateIdle
    /\ disk \in {<<>>,
                 Put(<<>>, <<"system", "p1">>, V1),
                 Put(<<>>, <<"user", "p2">>, V2),
                 Put(Put(<<>>, <<"system", "p1">>, V1), <<"user", "p2">>, V2)}
    /\ plugins = <<>>
    /\ actions = <<>>
    /\ plug_op = NoOp
PlugNext ==
    \/ NewRegistry
    \/ ScanPlugins
    \/ InstallPlugin
    \/ DeletePlugin
PlugSpec == PlugInit /\ [][PlugNext]_vars

\* _should_run on a schedule and a time.
CronInit ==
    /\ PermInit /\ CacheInit /\ TurnIdle /\ LockIdle /\ ExecIdle /\ HomeIdle /\ PlugIdle /\ SchedIdle /\ LateIdle
    /\ cron_schedule \in Schedules
    /\ cron_now \in ClockTimes
    /\ cron_result = None
CronNext ==
    \/ ShouldRun
    \/ CronClock
CronSpec == CronInit /\ [][CronNext]_vars

\* The task scheduler with its callers and the clock.
SchedInit ==
    /\ PermInit /\ CacheInit /\ TurnIdle /\ LockIdle /\ ExecIdle /\ HomeIdle /\ CronIdle /\ LateIdle
    /\ disk = SchedDisk
    /\ plugins = <<>>
    /\ actions = <<>>
    /\ plug_op = NoOp
    /\ SchedIdle
SchedNext ==
    \/ CreateTask
    \/ UpdateTask
    \/ DeleteTask
    \/ RunTask
    \/ LoopIteration
    \/ ClockTick
SchedSpec == SchedInit /\ [][SchedNext]_vars

\* One provider.generate call on a stream of chunks.
ProvInit ==
    /\ ProvAlone
    /\ provider \in Providers
    /\ use_thinking \in BOOLEAN
    /\ streamer \in StreamsUpTo(MaxChunks)
    /\ is_thinking = use_thinking
    /\ has_started_thinking = FALSE
    /\ stop_event = FALSE
    /\ prov_events = <<>>
    /\ prov_done = FALSE
ProvNext ==
    \/ QwenChunk
    \/ QwenReturn
    \/ GeminiChunk
    \/ GeminiReturn
    \/ GeminiError
    \/ SetStopEvent
ProvSpec == ProvInit /\ [][ProvNext]_vars

\* extract_json on texts made of up to MaxPieces pieces.
JsonInit ==
    /\ JsonAlone
    /\ json_text \in TextsOf(MaxPieces)
    /\ json_called = FALSE
    /\ json_result = <<>>
JsonNext ==
    \/ ExtractJsonCall
JsonSpec == JsonInit /\ [][JsonNext]_vars

\* The agent's pool, two turns and the scheduler thread running actions.
PoolInit == PoolAlone /\ PoolIdle
PoolNext ==
    \/ PoolSubmit
    \/ WorkerTakes
    \/ WorkerDone
    \/ \E chat \in PoolTurns : PreRequestRuns(chat)
    \/ \E chat \in PoolTurns : PreRequestDone(chat)
    \/ ScheduledRun
    \/ ScheduledDone
PoolSpec == PoolInit /\ [][PoolNext]_vars

\* The scheduler's loop threads with start, stop and delete_task callers.
LoopInit ==
    /\ LoopAlone
    /\ self_running = FALSE
    /\ threads_made = 0
    /\ loop_thread = [t \in LoopThreads |-> NoThread]
    /\ live_tasks = DueTaskIds
LoopNext ==
    \/ SchedulerStart
    \/ SchedulerStartAgain
    \/ \E ends \in BOOLEAN : SchedulerStop(ends)
    \/ \E t \in LoopThreads : LoopCheck(t)
    \/ \E t \in LoopThreads : LoopNextTask(t)
    \/ \E t \in LoopThreads, saves \in BOOLEAN : RunTaskReturns(t, saves)
    \/ \E t \in LoopThreads : LoopWakes(t)
    \/ \E id \in DueTaskIds : TaskDeleted(id)
LoopSpec == LoopInit /\ [][LoopNext]_vars

\* The agent's registry after AIAgent.__init__ (the scan of data/plugins at
\* core.py 100), then turns of the users and installs and removals.
ShareInit ==
    /\ ShareAlone
    /\ plugin_dirs \in SUBSET Folders
    /\ agent_actions = ScanFor(<<>>, plugin_dirs, None)
    /\ turn_user = None
    /\ turn_disk = {}
    /\ turn_pre_run = {}
    /\ turn_listed = {}
ShareNext ==
    \/ \E user \in ShareUsers : AskStreamScan(user)
    \/ \E folder \in Folders : FolderInstalled(folder)
    \/ \E folder \in Folders : FolderRemoved(folder)
ShareSpec == ShareInit /\ [][ShareNext]_vars

\* One batch of up to MaxIds requested actions of one chat.
IdsInit ==
    /\ IdsAlone
    /\ ids_pc = "dispatch"
    /\ batch_left \in 1..MaxIds
    /\ executions = <<>>
    /\ chat_active_id = <<>>
    /\ cancel_target = None
IdsNext ==
    \/ \E found \in BOOLEAN : DispatchAction(found)
    \/ DispatchOver
    \/ \E id \in 1..MaxIds : ExecutionEnds(id)
    \/ CollectFutures
    \/ WaitOver
    \/ CancelCurrent
IdsSpec == IdsInit /\ [][IdsNext]_vars

\* One generation of ask_stream: the provider and the loop that forwards.
FwdNext ==
    \/ ProvNext
    \/ ForwardEvent
    \/ GenerationRaises
FwdSpec == ProvInit /\ [][FwdNext]_vars

\* The processor thread after AIAgent.__init__, callers queueing requests,
\* and the shutdown.
WorkerInit ==
    /\ WorkerAlone
    /\ request_queue = <<>>
    /\ worker_alive = TRUE
    /\ agent_stop_event = FALSE
    /\ active_tasks = {}
    /\ asked = {}
    /\ served = [c \in WorkerChats |-> <<>>]
    /\ broadcasts = [c \in WorkerChats |-> <<>>]
WorkerNext ==
    \/ \E request \in Requests : PutRequest(request)
    \/ ProcessRequest
    \/ Shutdown
    \/ WorkerExits
WorkerSpec == WorkerInit /\ [][WorkerNext]_vars
\* The processor thread is a running thread: it is never held back for ever
\* while it can take a request.
WorkerFairSpec == WorkerSpec /\ WF_vars(ProcessRequest)

(***************************************************************************)
(* Claims on the permission store (PermSpec)                               *)
(***************************************************************************)
\* The store holds a grant that permits (u, a) in chat c at query time.
HoldsGrant(u, a, c) ==
    \E i \in DOMAIN permissions :
        LET r == permissions[i] IN
        /\ r.user_id = u
        /\ r.action_name = a
        /\ \/ r.scope = SCOPE_ALWAYS
           \/ r.scope = SCOPE_TODAY /\ r.expires_at # NoDate /\ r.expires_at[1] >= today
           \/ r.scope = SCOPE_SESSION /\ r.chat_id = c

C8_RowsWellFormed ==
    \A i \in DOMAIN permissions :
        LET r == permissions[i] IN
        /\ r.scope # SCOPE_ONCE
        /\ r.scope = SCOPE_SESSION => r.chat_id # None
        /\ r.scope = SCOPE_TODAY => r.expires_at # NoDate
        /\ r.scope = SCOPE_ALWAYS => r.expires_at = NoDate

(***************************************************************************)
(* Claims on the action cache (CacheSpec)                                  *)
(***************************************************************************)
\* C9: for every key and ttl > 0, less than ttl after the most recent set on
\* the key get returns the value of that set; ttl or more after it get
\* returns null while get_stale still returns the value, until the key is
\* invalidated or cleared.
C9_FreshThenStale ==
    \A n \in CacheActionNames, u \in CacheUsers, ttl \in 1..(MaxTtl + 1) :
        LET key == make_key(n, u) IN
        key \in DOMAIN lastSet =>
            /\ now - lastSet[key].at < ttl =>
                  cache_get(n, u, ttl) = lastSet[key].data
            /\ now - lastSet[key].at >= ttl =>
                  /\ cache_get(n, u, ttl) = None
                  /\ cache_get_stale(n, u) = lastSet[key].data

\* One entry is past its ttl and served only by get_stale while another,
\* set later, is still served by get.
C9_Witness ==
    \E n1, n2 \in CacheActionNames, u \in CacheUsers :
        /\ make_key(n1, u) \in DOMAIN lastSet
        /\ make_key(n2, u) \in DOMAIN lastSet
        /\ now - lastSet[make_key(n1, u)].at >= 1
        /\ cache_get(n1, u, 1) = None
        /\ cache_get_stale(n1, u) = lastSet[make_key(n1, u)].data
        /\ now - lastSet[make_key(n2, u)].at < 1
        /\ cache_get(n2, u, 1) = lastSet[make_key(n2, u)].data

(***************************************************************************)
(* Claims on the turn orchestrator                                         *)
(***************************************************************************)
LastEvent == stream[Len(stream)]

\* An event that may close a stream: a final content, a permission_required
\* or an error.
Closing(e) ==
    \/ e.status \in {"content", "json_content"} /\ e.origin = "provider"
    \/ e.status \in {"permission_required", "error"}

\* C1: every ask_stream call, fresh or resumed, with generations that are all
\* finite, emits finitely many events: the generator finishes, and its last
\* event is a final content, a permission_required or an error.
C1_StreamEnds ==
    <>(pc = "done" /\ stream # <<>> /\ Closing(LastEvent))

Consultations(action_name) ==
    {k \in DOMAIN perm_checked : perm_checked[k] = <<UserId, action_name, ChatId>>}

\* C2: every action submitted to the executor has had
\* check_permission(user_id, action_name, chat_id) consulted for it before.
C2_PermissionConsulted ==
    \A i \in DOMAIN pending : Consultations(pending[i].name) # {}

Unpermitted(batch) ==
    {i \in DOMAIN batch : ~check_permission(UserId, batch[i], ChatId)}
FirstUnpermitted(batch) ==
    batch[CHOOSE i \in Unpermitted(batch) : \A j \in Unpermitted(batch) : i <= j]

\* C3: once a generation that requested a batch with an unpermitted action has
\* been analysed, nothing of the batch has been executed, the stream is over
\* and its last event is the permission_required naming the first unpermitted
\* action of the batch.
C3_PausesOnUnpermitted ==
    (/\ lastGen.kind = "actions"
     /\ Unpermitted(lastGen.actions) # {}
     /\ pc \notin {"generate", "analyse"})
    => /\ pc = "done"
       /\ LastEvent = Ev("permission_required", "system", FirstUnpermitted(lastGen.actions))
       /\ \A a \in ActionNames : executed[a] = 0

Occurrences(batch, action_name) ==
    Cardinality({i \in DOMAIN batch : batch[i] = action_name})

\* C4: in a call resumed on an assistant item whose actions are all
\* permitted, no action runs more often than the item requests it, the
\* actions are dispatched as one batch and one generation follows.
C4_ResumeExecutesOnce ==
    (json_data.kind = "actions" /\ Unpermitted(json_data.actions) = {})
    => /\ \A a \in ActionNames : executed[a] <= Occurrences(json_data.actions, a)
       /\ nBatches <= 1
       /\ nGenerate <= 1

\* C5: within one call the provider generates at most max_loops times and at
\* most max_loops action batches are executed.
C5_AtMostMaxLoops ==
    nGenerate <= max_loops /\ nBatches <= max_loops

\* C6: a generation that requested no action is the last one; and the
\* generation after a batch of permitted actions is given a system prompt,
\* built from the action_formater template, that holds the observation of
\* every registered action of the batch.
C6_ObservationsFedBack ==
    [][(nGenerate' # nGenerate) =>
         /\ lastGen.kind # "text"
         /\ (lastGen.kind = "actions" /\ Unpermitted(lastGen.actions) = {}) =>
               /\ system_prompt.template = "action_formater"
               /\ \A i \in DOMAIN lastGen.actions :
                     get_action(lastGen.actions[i]) # None
                        => lastGen.actions[i] \in system_prompt.action_data]_vars

\* C10: when the pre-request phase is over, every pre_request action with a
\* positive cache_ttl whose execution succeeded has its output in the cache.
C10_PreRequestCached ==
    (pc = "resume_scan" /\ pre_ttl > 0)
    => \A a \in pre_executed :
          a \in system_prompt.action_data => cache_get_stale(a, UserId) # None

(***************************************************************************)
(* Claims on the cache under concurrent callers (ConcSpec)                 *)
(***************************************************************************)
\* What the step that takes thread t out of its with block must have done,
\* were the whole method applied at once to the map the thread locked.
Commits(t) ==
    LET c == thr[t] IN
    CASE c.op = "get" ->
            /\ cache = held /\ cache' = held
            /\ thr'[t].ret = cache_get(c.action_name, c.user_id, c.ttl)
      [] c.op = "get_stale" ->
            /\ cache = held /\ cache' = held
            /\ thr'[t].ret = cache_get_stale(c.action_name, c.user_id)
      [] c.op = "is_stale" ->
            /\ cache = held /\ cache' = held
            /\ thr'[t].ret = Bool2Str(cache_is_stale(c.action_name, c.user_id, c.ttl))
      [] c.op = "set" ->
            /\ cache = held
            /\ cache' = cache_set(c.action_name, c.user_id, c.data, c.ttl)
      [] c.op = "invalidate" ->
            /\ cache = held
            /\ cache' = cache_invalidate(c.action_name, c.user_id)
      [] c.op = "clear_user" ->
            cache' = Drop(held, {k \in DOMAIN held : EndsWith(k, ":" \o c.user_id)})

\* C11: under every interleaving of two callers, at most one thread is inside
\* a with block, no method raises, and each method leaves its with block
\* having returned and done to the entry map what the method applied
\* atomically to the map it locked returns and does.
C11_Atomic ==
    [][/\ Cardinality({t \in Threads : thr'[t].pc \in InLock}) <= 1
       /\ \A t \in Threads :
             /\ thr'[t].pc # "raised"
             /\ (thr[t].pc \in InLock /\ thr'[t].pc \notin InLock)
                   => thr'[t].pc = "done" /\ Commits(t)]_vars

\* A writer waits for the lock while another thread is between two
\* statements of its with block.
C11_Witness ==
    \E t, u \in Threads :
        /\ thr[t].pc \in {"age", "del"}
        /\ thr[u].pc = "acquire"
        /\ thr[u].op \in {"set", "invalidate", "clear_user"}

(***************************************************************************)
(* Claims on the supervisor loop and the provider                          *)
(***************************************************************************)
\* C12: when the generation after a batch of permitted actions starts, the
\* stream's latest event is the action_output of an action of that batch.
C12_OutputsBeforeNextGeneration ==
    [][(/\ nGenerate' # nGenerate
        /\ lastGen.kind = "actions"
        /\ Unpermitted(lastGen.actions) = {})
       => /\ LastEvent.status = "action_output"
          /\ LastEvent.name \in Range(lastGen.actions)]_vars

\* C13: a progress message is forwarded to the consumer only while a future
\* of the action it comes from is still unreported.
C13_NoProgressAfterOutput ==
    [][Len(progress_q') < Len(progress_q)
       => \E j \in DOMAIN pending : pending[j].name = Head(progress_q)]_vars

\* C14: when the supervisor loop of a batch is over, every requested action
\* that the registry does not hold has an observation.
C14_UnknownActionReported ==
    (pc = "supervise" /\ pending = <<>> /\ progress_q = <<>>)
    => \A i \in DOMAIN found_resume_actions :
          LET act == found_resume_actions[i] IN
          (act.args /\ act.name # Missing /\ get_action(act.name) = None)
             => act.name \in Range(observations)

\* One step of the supervisor loop, as C15 has it.
C15_Reported(i) ==
    /\ pending[i].state \in {"success", "error"}
    /\ pending' = Remove(pending, i)
    /\ stream' # <<>>
    /\ stream'[Len(stream')] = Ev("action_output", pending[i].state, pending[i].name)
C15_Step ==
    (pc \in {"supervise", "wait"}) =>
        /\ pc' \in {"supervise", "wait", "loop_head"}
        /\ ((pc' = "loop_head") =>
               /\ pending = <<>>
               /\ stream' = stream
               /\ \A k \in DOMAIN found_resume_actions :
                     LET act == found_resume_actions[k] IN
                     (act.args /\ get_action(act.name) # None)
                        => act.name \in Range(observations))
        /\ ((Len(pending') < Len(pending)) => (\E i \in DOMAIN pending : C15_Reported(i)))

C16_ProviderErrorEnds ==
    (stream # <<>> /\ LastEvent.status = "error") => pc = "done"

\* C18: once the stop signal is set no generation starts and no batch is
\* dispatched.
C18_StopHonoured ==
    [][stop => (nGenerate' = nGenerate /\ nBatches' = nBatches)]_vars

(***************************************************************************)
(* Claims on the execution engine (ExecSpec)                               *)
(***************************************************************************)
\* C17: cancel_current_action returns without raising, and an execution that
\* was cancelled while its child ran returns status error, error "cancelled".
C17_CancelReturns ==
    /\ cancel_result # "AttributeError"
    /\ (cancel_result # None /\ active_action_ids # None /\ exit_code # <<>>)
          => exec_result.status = "error" /\ exec_result.kind = "cancelled"

NonProgressObjects(lines) ==
    {i \in DOMAIN lines : lines[i] \in {"match", "object"}}
Last(S) == CHOOSE i \in S : \A j \in S : j <= i

\* C19: for a child that exits with code 0 the result is the last JSON object
\* of stdout whose status is not progress; it is never a progress object;
\* and it is the raw stdout when no line parses as JSON.
C19_LastNonProgressObject ==
    exit_code = <<0>>
    => /\ NonProgressObjects(stdout_lines) # {}
            => exec_result = ExecResult("success", "line", Last(NonProgressObjects(stdout_lines)))
       /\ exec_result.kind = "line" => stdout_lines[exec_result.line] # "progress"
       /\ (\A i \in DOMAIN stdout_lines : ~ParsesAsJson(stdout_lines[i]))
            => exec_result = ExecResult("success", "raw", 0)

\* C20: with a progress callback, the lines passed to it when the child has
\* exited are the progress and match objects of stdout, once each, in order.
C20_ProgressAndMatchForwarded ==
    (exit_code # <<>> /\ progress_callback)
    => /\ \A k \in 1..(Len(callback_log) - 1) : callback_log[k] < callback_log[k + 1]
       /\ Range(callback_log) =
             {i \in DOMAIN stdout_lines : stdout_lines[i] \in {"progress", "match"}}

(***************************************************************************)
(* Claims on the environment of an action (HomeSpec)                       *)
(***************************************************************************)
SystemHome == Cwd \o <<"bot_data", "_system">>
UserHome(user_id) == Cwd \o <<"bot_data", "users", user_id>>
TmpHome == Cwd \o <<"data", "tmp">>

\* C21: after execute, GENESIS_HOME is the system home for a system action,
\* the home of the user for a user action run with a user id, and data/tmp
\* otherwise; a user action run for user u gets neither the system home nor
\* the home of another user; and a child that was started has the value in
\* its environment.
C21_HomeByRole ==
    home_call # NoCall =>
        /\ home_call.role = "system" => genesis_home = SystemHome
        /\ (home_call.role = "user" /\ home_call.user_id \in HomeUserIds)
              => /\ genesis_home = UserHome(home_call.user_id)
                 /\ genesis_home # SystemHome
                 /\ \A v \in HomeUserIds \ {home_call.user_id} : genesis_home # UserHome(v)
        /\ (home_call.role = "user" /\ home_call.user_id \in NoUserId)
              => genesis_home = TmpHome
        /\ home_call.type \in {"python", "process"} => child_env = <<genesis_home>>

\* A user action has been run for user 2 in a child process.
C21_Witness ==
    /\ home_call.role = "user"
    /\ home_call.user_id = "2"
    /\ home_call.type = "python"
    /\ child_env = <<UserHome("2")>>

(***************************************************************************)
(* Claims on plugin archives and the registry (PlugSpec)                   *)
(***************************************************************************)
\* The step is an install of the named archive / a delete / a scan.
InstallStep == plug_op'.kind = "install"
DeleteStep  == plug_op'.kind = "delete"
ScanStep    == plug_op'.kind = "scan"
Installing  == ArchiveManifest(plug_op'.arg)
RegistrySame == plugins' = plugins /\ actions' = actions

\* C22: unpacking the archive pack_plugin made of a plugin succeeds the
\* integrity check, and the manifest it leaves at the final path (the one it
\* returns) has integrity.sha256 equal to the hash of the plugin's manifest
\* without its integrity block, whether or not the plugin carried one.
C22_Step ==
    (InstallStep /\ plug_op'.arg \in DOMAIN Sources) =>
        LET P == Sources[plug_op'.arg] IN
        /\ plug_op'.result # "ValueError"
        /\ FinalPath(P, plug_op'.scope) \in DOMAIN disk'
        /\ disk'[FinalPath(P, plug_op'.scope)]["integrity"] =
              <<calculate_manifest_hash(Drop(P, {"integrity"}))>>
C22_PackUnpackHash ==
    [][C22_Step]_vars

\* The archive of a plugin that carried an out-of-date integrity block has
\* been unpacked.
C22_Witness ==
    /\ plug_op.kind = "install"
    /\ plug_op.arg = "V1stale"
    /\ <<"system", "p1">> \in DOMAIN disk

\* The manifest's stored sha256 is not the hash of the rest of it.
Mismatch(manifest) ==
    /\ "integrity" \in DOMAIN manifest
    /\ manifest["integrity"] # <<Dumps(Drop(manifest, {"integrity"}), 1)>>

\* C23: installing an archive whose stored sha256 differs from the hash of
\* its manifest without the integrity block is rejected with an error and
\* changes neither the plugin directories nor the registry.
C23_Step ==
    (InstallStep /\ Mismatch(Installing)) =>
        /\ plug_op'.result = "ValueError"
        /\ disk' = disk
        /\ RegistrySame
C23_MismatchRejected ==
    [][C23_Step]_vars

\* An edited archive of p1 has been rejected while a plugin is installed at
\* its target path.
C23_Witness ==
    /\ plug_op.kind = "install"
    /\ plug_op.arg = "V1edited"
    /\ plug_op.result = "ValueError"
    /\ <<"system", "p1">> \in DOMAIN disk

\* C24: installing an archive whose manifest lacks a required field is
\* rejected, writes nothing under the plugin directory and leaves the
\* registry as it was; and a scan registers nothing for such a manifest.
C24_Step ==
    /\ (InstallStep /\ ~validate_manifest(Installing)) =>
          /\ plug_op'.result \in {"ValueError", "KeyError"}
          /\ disk' = disk
          /\ RegistrySame
    /\ ScanStep =>
          \A i \in DOMAIN plug_op'.order :
             LET path == plug_op'.order[i] IN
             (~validate_manifest(disk[path]) /\ Len(plug_op'.order) = 1) => RegistrySame
C24_InvalidRejected ==
    [][C24_Step]_vars

\* C25: delete_plugin returns true exactly for a registered plugin; then the
\* plugin and the actions with its plugin id are gone and every other plugin
\* and every action of another plugin is as before; when it returns false
\* nothing has changed.
C25_Step ==
    DeleteStep =>
        LET p == plug_op'.arg IN
        IF p \in DOMAIN plugins
        THEN /\ plug_op'.result = "True"
             /\ DOMAIN plugins' = DOMAIN plugins \ {p}
             /\ \A q \in DOMAIN plugins' : plugins'[q] = plugins[q]
             /\ \A name \in DOMAIN actions' : actions'[name].plugin_id # p
             /\ DOMAIN actions' \subseteq DOMAIN actions
             /\ \A name \in DOMAIN actions :
                   actions[name].plugin_id # p
                      => name \in DOMAIN actions' /\ actions'[name] = actions[name]
        ELSE /\ plug_op'.result = "False"
             /\ disk' = disk
             /\ RegistrySame
C25_DeleteFrame ==
    [][C25_Step]_vars

\* p1 has been deleted and p2, with its two actions, is still registered.
C25_Witness ==
    /\ plug_op.kind = "delete"
    /\ plug_op.arg = "p1"
    /\ plug_op.result = "True"
    /\ DOMAIN plugins = {"p2"}
    /\ DOMAIN actions = {"a1", "a2"}

\* The entries of a scan that declare the name with a valid manifest.
Declaring(order, name) ==
    {i \in DOMAIN order :
        /\ validate_manifest(disk[order[i]])
        /\ name \in Range(disk[order[i]]["actions"])}
LastOf(S) == CHOOSE i \in S : \A j \in S : j <= i

\* C26: after a scan, a name that plugins of the scan declare belongs to the
\* one loaded last among them, with that plugin's id, role and path; a name
\* none of them declares is as before.
C26_Step ==
    ScanStep =>
        LET order == plug_op'.order IN
        \A name \in {"a1", "a2"} :
           IF Declaring(order, name) = {}
           THEN /\ (name \in DOMAIN actions') = (name \in DOMAIN actions)
                /\ name \in DOMAIN actions => actions'[name] = actions[name]
           ELSE LET path == order[LastOf(Declaring(order, name))] IN
                /\ name \in DOMAIN actions'
                /\ actions'[name] = [plugin_id |-> Head(disk[path]["id"]),
                                     role |-> path[1], path |-> path]
C26_LaterShadows ==
    [][C26_Step]_vars

\* A scan has loaded first the user's p2 and then the system's p1: a1
\* belongs to p1, although p2 declares it too.
C26_Witness ==
    /\ plug_op.kind = "scan"
    /\ Len(plug_op.order) = 2
    /\ plug_op.order[2] = <<"system", "p1">>
    /\ {"p1", "p2"} \subseteq DOMAIN plugins
    /\ "a1" \in DOMAIN actions
    /\ actions["a1"].plugin_id = "p1"

(***************************************************************************)
(* Claims on the task scheduler                                            *)
(***************************************************************************)
\* A field matches a clock value: *, a literal integer equal to it, or */N
\* with the value divisible by N.
FieldMatches(field, value) ==
    \/ field = "*"
    \/ int(field) = <<value>>
    \/ /\ StartsWithEvery(field)
       /\ int(AfterEvery(field)) \notin {<<>>, <<0>>}
       /\ value % int(AfterEvery(field))[1] = 0

\* C28: _should_run is true exactly when the schedule has five fields and
\* its minute and hour fields both match the time.
C28_ShouldRunIff ==
    cron_result # None =>
        ((cron_result = "True") <=>
            /\ Len(split(cron_schedule)) = 5
            /\ FieldMatches(split(cron_schedule)[1], cron_now.minute)
            /\ FieldMatches(split(cron_schedule)[2], cron_now.hour))


\* A schedule matches a time as the scheduler's contract has it: five fields,
\* with the minute and the hour field matching.
ScheduleMatches(schedule, at) ==
    /\ schedule # None
    /\ Len(split(schedule)) = 5
    /\ FieldMatches(split(schedule)[1], at.minute)
    /\ FieldMatches(split(schedule)[2], at.hour)

\* The executions the loop started for a task within minute m.
FiresIn(task_id, m) == {f \in fire_log : f.id = task_id /\ MinuteOf(f.start) = m}

\* A task that has been active with a schedule matching minute m since before
\* the minute began, the minute being over.
DueThrough(task, m) ==
    /\ running
    /\ clock >= (m + 1) * MinuteLen
    /\ changed_at[task.id] < m * MinuteLen
    /\ task.status = "active"
    /\ ScheduleMatches(task.schedule, ClockOf(m * MinuteLen))

\* C27: while the scheduler runs, the loop executes every active task exactly
\* once in every minute that matches its schedule: once such a minute is over,
\* the loop has started exactly one execution of the task within it.
C27_EveryMatchingMinuteOnce ==
    \A i \in DOMAIN tasks : \A m \in 0..MaxClock :
        DueThrough(tasks[i], m) => Cardinality(FiresIn(tasks[i].id, m)) = 1

\* C29: run_task on an existing task whose action resolves, with executor and
\* registry given, executes the action once and sets last_run, whatever the
\* schedule; with an unknown id, no executor or registry, or an action that is
\* not found it returns status error and leaves the task table as it was.
C29_Step ==
    sched_op'.kind = "run" =>
        LET task_id == sched_op'.id
            answers == /\ HasTask(tasks, task_id)
                       /\ sched_op'.provided
                       /\ tasks[IndexOf(tasks, task_id)].action \in sched_op'.registered
        IN  IF answers
            THEN /\ sched_op'.status # "error"
                 /\ sched_op'.fired = {[id |-> task_id, start |-> clock]}
                 /\ tasks' = [tasks EXCEPT ![IndexOf(tasks, task_id)].last_run = <<clock>>]
            ELSE /\ sched_op'.status = "error"
                 /\ sched_op'.fired = {}
                 /\ tasks' = tasks
C29_ManualRun == [][C29_Step]_vars
\* A manual run has just executed a task whose schedule does not match now.
C29_Witness ==
    /\ sched_op.kind = "run"
    /\ sched_op.status = "executed"
    /\ \E i \in DOMAIN tasks :
          /\ tasks[i].id = sched_op.id
          /\ tasks[i].schedule = "1 * * * *"
          /\ ~should_run(tasks[i].schedule, ClockOf(clock))
          /\ tasks[i].last_run = <<clock>>

\* C30: the loop never executes a task that is paused or has no schedule, and
\* the last_run of such a task changes only in a manual run_task.
ManualOnly(task) == task.status = "paused" \/ task.schedule = None
C30_Step ==
    \A i \in DOMAIN tasks :
        ManualOnly(tasks[i]) =>
            /\ sched_op'.kind = "loop" =>
                  tasks[i].id \notin {f.id : f \in sched_op'.fired}
            /\ /\ HasTask(tasks', tasks[i].id)
               /\ tasks'[IndexOf(tasks', tasks[i].id)].last_run # tasks[i].last_run
               => sched_op'.kind = "run"
CountOf(events, status) == Cardinality({i \in 1..Len(events) : events[i] = status})

\* No thinking or thinking_finished event follows a content event.
NoThinkingAfterContent ==
    \A i, j \in 1..Len(prov_events) :
        (i < j /\ prov_events[i] = "content")
            => prov_events[j] \notin {"thinking", "thinking_finished"}

\* C32: a generation that ran to its end without error has yielded
\* thinking_finished exactly once, and no thinking or thinking_finished event
\* after its first content event.
C32_ThinkingFinishedOnce ==
    (prov_done /\ ~stop_event /\ CountOf(prov_events, "error") = 0) =>
        /\ CountOf(prov_events, "thinking_finished") = 1
        /\ NoThinkingAfterContent

(***************************************************************************)
(* Claims on extract_json (JsonSpec)                                       *)
(***************************************************************************)
\* The text is one JSON object followed by text that is not JSON and not
\* blank; ObjectLength is where the object ends.
ObjectLengths(text) ==
    {n \in 1..(Len(text) - 1) :
        /\ text[n] = "}"
        /\ IsObject(Strip(SubSeq(text, 1, n)))
        /\ Strip(SubSeq(text, n + 1, Len(text))) # <<>>
        /\ json_loads(SubSeq(text, n + 1, Len(text))) = <<>>}

\* C34: for a text that is one valid JSON object followed by trailing
\* non-JSON text, extract_json returns that object.
C34_ObjectBeforeTrailingText ==
    json_called =>
        \A n \in ObjectLengths(json_text) :
            json_result = <<Strip(SubSeq(json_text, 1, n))>>

\* The same with a stop token as the trailing text.
StopTokenReturned ==
    json_called =>
        \A n \in ObjectLengths(json_text) :
            (\A i \in (n + 1)..Len(json_text) : json_text[i] \in {"x", " "})
                => json_result = <<Strip(SubSeq(json_text, 1, n))>>

(***************************************************************************)
(* Claims on the threads that run actions (PoolSpec)                       *)
(***************************************************************************)
\* The plugin child processes running in the process.
ChildrenRunning ==
    workers_busy + Cardinality(turn_children) + (IF loop_child THEN 1 ELSE 0)

\* C33: at every moment at most max_workers plugin child processes run,
\* counting those of model-requested actions, pre_request actions and
\* scheduled tasks.
C33_AtMostPoolSize == ChildrenRunning <= max_workers

\* The children of the pool alone never exceed its size.
PoolWithinSize == workers_busy <= max_workers

(***************************************************************************)
(* Claims on the scheduler's loop threads (LoopSpec)                       *)
(***************************************************************************)
\* The loop threads that are inside a tick.
Ticking == {t \in LoopThreads : loop_thread[t].pc \in {"for", "run"}}

\* C38: across start() and stop() calls at most one loop thread is ticking
\* at a time.
C38_OneLoopThread == Cardinality(Ticking) <= 1

\* start() on a running scheduler creates no thread.
StartAgain_Step == self_running => threads_made' = threads_made
StartOnRunningCreatesNone == [][StartAgain_Step]_vars

\* C39: when a tick is over, every task of the tick's list that still exists
\* was executed in that tick.
C39_OtherDueTasksRun ==
    \A t \in LoopThreads :
        loop_thread[t].pc = "sleep" =>
            (loop_thread[t].due \cap live_tasks) \subseteq loop_thread[t].ran

\* After a failure the loop thread sleeps and ticks again: it never ends
\* while self.running holds.
LoopKeeps_Step ==
    \A t \in LoopThreads :
        (loop_thread[t].pc # "ended" /\ loop_thread'[t].pc = "ended") => ~self_running'
LoopKeepsTicking == [][LoopKeeps_Step]_vars

\* After stop() and start() the earlier loop thread begins no tick.
EarlierThread_Step ==
    \A t \in LoopThreads :
        (t < threads_made /\ loop_thread[t].pc = "check") => loop_thread'[t].pc # "for"
EarlierThreadBeginsNoTick == [][EarlierThread_Step]_vars

(***************************************************************************)
(* Claims on the shared registry (ShareSpec)                               *)
(***************************************************************************)
\* The actions a turn of the user may have: those of the system plugins and
\* of the user's own plugins that were on disk at the scan.
OwnActions(user, dirs) == {ActionIn(d) : d \in {e \in dirs : e[1] \in {"system", user}}}

\* C36: the actions the latest turn executed as pre_request actions, listed
\* in its system prompt or can resolve are system actions or actions of the
\* turn's own user, of plugins on disk.
C36_OnlyOwnActions ==
    (turn_pre_run \cup turn_listed) \subseteq OwnActions(turn_user, turn_disk)

(***************************************************************************)
(* Claims on active_action_ids (IdsSpec)                                   *)
(***************************************************************************)
\* C37: the chat has at most one entry; while an action of the batch is
\* running the entry holds the id of a running action; once the wait loop is
\* over there is no entry.
C37_ActiveIdIsRunning ==
    /\ Len(chat_active_id) <= 1
    /\ RunningIds # {} => (chat_active_id # <<>> /\ chat_active_id[1] \in RunningIds)
    /\ ids_pc = "end" => chat_active_id = <<>>

\* The two outer parts of it: at most one entry, and none after the batch.
OneEntryNoneAfter ==
    /\ Len(chat_active_id) <= 1
    /\ ids_pc = "end" => chat_active_id = <<>>

\* With one action in the batch the entry is that action's while it runs.
SingleActionTracked ==
    (Len(executions) = 1 /\ RunningIds # {}) => chat_active_id = <<1>>

(***************************************************************************)
(* Claims on the forwarding of a generation (FwdSpec)                      *)
(***************************************************************************)
\* The thinking, thinking_finished and content events of a run of events.
GenerationEvents(events) ==
    SelectSeq(events, LAMBDA e : e \in {"thinking", "thinking_finished", "content"})

\* C35: the thinking, thinking_finished and content events forwarded to the
\* consumer are those the provider has yielded so far, in its order, each
\* once; when the generation is over they are all of the provider's.
C35_ForwardedExactlyOnce ==
    /\ GenerationEvents(forwarded) = GenerationEvents(SubSeq(prov_events, 1, fwd_pos))
    /\ \A i \in 1..Len(forwarded) :
          forwarded[i] \in {"thinking", "thinking_finished", "content", "error"}

\* A generation with all three kinds of event has been forwarded to its end.
C35_Witness ==
    /\ prov_done
    /\ fwd_pos = Len(prov_events)
    /\ prov_events = <<"thinking", "thinking_finished", "content", "content">>
    /\ forwarded = prov_events

(***************************************************************************)
(* Claims on the background worker (WorkerSpec, WorkerFairSpec)            *)
(***************************************************************************)
\* The request of the chat has been processed to its end with return_json:
\* its last generation had no actions, or the loop limit was reached.
FinishedJson(c) ==
    /\ served[c] # <<>>
    /\ served[c][1].return_json
    /\ \/ served[c][1].rounds >= worker_max_loops
       \/ served[c][1].last \in FinalContents
\* The content of the request's last generation.
LastContent(request) ==
    IF request.rounds >= worker_max_loops THEN ActionsContent ELSE request.last
JsonEvents(c) == SelectSeq(broadcasts[c], LAMBDA e : e.status = "json_content")

\* C31: a request with return_json that ends without actions or at the loop
\* limit gets exactly one json_content event, before the sentinel, whose
\* message is the message of the parsed content, or the content itself when
\* it is no JSON object with a message.
C31_OneJsonContent ==
    \A c \in WorkerChats :
        FinishedJson(c) =>
            /\ Len(JsonEvents(c)) = 1
            /\ broadcasts[c][Len(broadcasts[c])] = Sentinel
            /\ JsonEvents(c)[1].message =
                  (IF MessageIn(LastContent(served[c][1])) # <<>>
                   THEN MessageIn(LastContent(served[c][1]))[1]
                   ELSE LastContent(served[c][1]))

\* The same for the requests that end below the loop limit.
JsonContentBelowLimit ==
    \A c \in WorkerChats :
        (FinishedJson(c) /\ served[c][1].rounds < worker_max_loops) =>
            /\ Len(JsonEvents(c)) = 1
            /\ JsonEvents(c)[1].message =
                  (IF MessageIn(served[c][1].last) # <<>>
                   THEN MessageIn(served[c][1].last)[1]
                   ELSE served[c][1].last)

\* C40: until shutdown is requested, every request put on the queue is
\* eventually processed.
C40_EveryRequestProcessed ==
    \A c \in WorkerChats :
        (c \in asked) ~> (served[c] # <<>> \/ agent_stop_event)

\* Every processed request got the sentinel as its last broadcast and its
\* chat is no longer in active_tasks.
ProcessedGetSentinel ==
    \A c \in WorkerChats :
        served[c] # <<>> =>
            /\ broadcasts[c] # <<>>
            /\ broadcasts[c][Len(broadcasts[c])] = Sentinel
            /\ c \notin active_tasks

====
